---- MODULE Spec2Model ----
(***************************************************************************)
(* A model of fusionrate: the Reaction facade with its bounds policies and *)
(* input normalisation (fusionrate/reaction.py), the table cross section's *)
(* domains (fusionrate/endf.py) and the reaction-name resolver             *)
(* (fusionrate/reactionnames.py).                                          *)
(*                                                                         *)
(* Floating-point numbers are records [k, v]: k = "num" is the finite      *)
(* number v, k = "inf" is v * infinity (v = 1 or -1), k = "nan" is NaN.    *)
(* k = "val" is the finite value returned by the provider function f at    *)
(* the argument v.  Arrays are records [shape, data] with the data in      *)
(* row-major order.  Strings are sequences of one-character tokens; the    *)
(* non-ASCII characters of the source are the tokens "sup1", "sup2",       *)
(* "sup3", "sup4", "sup6", "sup7", "alpha" and "arrow".                    *)
(***************************************************************************)
EXTENDS Integers, Sequences, FiniteSets, TLC

VARIABLES
    name,       \* Reaction._name: the canonical name of the Reaction
    cross,      \* Reaction._cross_section: scheme -> node
    rate,       \* Reaction._ratecoeff: distribution -> scheme -> node
    nsets,      \* number of set_extrapolation_behavior calls made so far
    call,       \* the public call in progress or just finished, with its outcome
    raw,        \* name resolver: the string handed to the resolver
    resolved    \* name resolver: the outcome of the resolution

vars == <<name, cross, rate, nsets, call, raw, resolved>>

(***************************************************************************)
(* Floating point                                                          *)
(***************************************************************************)
NaN == [k |-> "nan", v |-> 0]
PosInf == [k |-> "inf", v |-> 1]
NegInf == [k |-> "inf", v |-> -1]
Num(n) == [k |-> "num", v |-> n]

IsNaN(x) == x.k = "nan"
IsFinite(x) == x.k \notin {"nan", "inf"}

\* x < y on floats whose k is "num", "inf" or "nan": false when either is NaN
Lt(x, y) ==
    CASE IsNaN(x) \/ IsNaN(y) -> FALSE
      [] x.k = "inf" /\ x.v = 1 -> FALSE
      [] x.k = "inf" -> ~(y.k = "inf" /\ y.v = -1)
      [] y.k = "inf" -> y.v = 1
      [] OTHER -> x.v < y.v

Gt(x, y) == Lt(y, x)
Ge(x, y) == ~IsNaN(x) /\ ~IsNaN(y) /\ ~Lt(x, y)
Le(x, y) == Ge(y, x)

(***************************************************************************)
(* Arrays                                                                  *)
(***************************************************************************)
RECURSIVE Product(_)
Product(shape) ==
    IF shape = <<>> THEN 1 ELSE Head(shape) * Product(Tail(shape))

Arr(shape, data) == [shape |-> shape, data |-> data]

\* x[mask]: the selected elements as a 1-D array
RECURSIVE Select(_, _)
Select(data, mask) ==
    IF data = <<>> THEN <<>>
    ELSE (IF Head(mask) THEN <<Head(data)>> ELSE <<>>)
         \o Select(Tail(data), Tail(mask))

Take(x, mask) ==
    LET d == Select(x.data, mask) IN Arr(<<Len(d)>>, d)

\* result[mask] = values, on a result filled with fill
RECURSIVE Scatter(_, _, _)
Scatter(mask, values, fill) ==
    IF mask = <<>> THEN <<>>
    ELSE IF Head(mask)
         THEN <<Head(values)>> \o Scatter(Tail(mask), Tail(values), fill)
         ELSE <<fill>> \o Scatter(Tail(mask), values, fill)

MaskOf(x, P(_)) == [i \in 1..Len(x.data) |-> P(x.data[i])]

\* np.atleast_1d(x).astype(float): a 0-d input becomes an array of shape (1,)
normalize_dimensions_and_copy(x) ==
    Arr(IF x.shape = <<>> THEN <<1>> ELSE x.shape, x.data)

\* A normalisation that masks the negative elements only
normalize_energy_negative_only(e) ==
    LET e1 == normalize_dimensions_and_copy(e)
        mask == MaskOf(e1, LAMBDA v : Lt(v, Num(0)))
    IN  Arr(e1.shape,
            [i \in 1..Len(e1.data) |-> IF mask[i] THEN NaN ELSE e1.data[i]])

\* mask = (e < 0.0) | ~isfinite(e); putmask(e, mask, nan)
normalize_energy(e) ==
    LET e1 == normalize_dimensions_and_copy(e)
        mask == MaskOf(e1, LAMBDA v : Lt(v, Num(0)) \/ ~IsFinite(v))
    IN  Arr(e1.shape,
            [i \in 1..Len(e1.data) |-> IF mask[i] THEN NaN ELSE e1.data[i]])

(***************************************************************************)
(* Provider functions and bounds policies.  A function value is either a   *)
(* provider's bound method, [wrap |-> "provider", f], or a closure made by *)
(* one of the wrappers around another function value.                      *)
(***************************************************************************)
Method(f) == [wrap |-> "provider", f |-> f]

\* The numeric kernels (Bosch-Hale formula, log-log spline) at one element:
\* a finite value for a positive finite argument.  At 0 the kernels divide by
\* zero or take log(0) and yield NaN, as they do for a NaN argument.
Kernel(f, v) ==
    IF v.k = "num" /\ v.v > 0 THEN [k |-> "val", v |-> v.v, f |-> f] ELSE NaN

wrap_for_zero_when_out_of_bounds(func, bounds) ==
    [wrap |-> "zeros", inner |-> func, low |-> bounds[1], high |-> bounds[2]]

wrap_for_zero_below_lower_bound(func, bounds) ==
    [wrap |-> "zero_below", inner |-> func, low |-> bounds[1], high |-> bounds[2]]

wrap_to_move_values_in_bounds(func, bounds) ==
    [wrap |-> "const", inner |-> func, low |-> bounds[1], high |-> bounds[2]]

BehaviorNames == {"zeros", "zero_below", "const", "raw"}

BEHAVIORS(behavior, func, bounds) ==
    CASE behavior = "zeros" -> wrap_for_zero_when_out_of_bounds(func, bounds)
      [] behavior = "zero_below" -> wrap_for_zero_below_lower_bound(func, bounds)
      [] behavior = "const" -> wrap_to_move_values_in_bounds(func, bounds)
      [] behavior = "raw" -> func

\* acceptable = (x > low) & (x < high)
zeros_acceptable(v, low, high) == Gt(v, low) /\ Lt(v, high)

\* A lower cut that lets the bound itself through
zero_below_acceptable_inclusive(v, low, high) == Ge(v, low)

\* acceptable = x > low
zero_below_acceptable(v, low, high) == Gt(v, low)

\* A clip that moves values up to low but leaves those above high alone
clip_lower_only(v, low, high) ==
    IF IsNaN(v) THEN NaN
    ELSE IF Lt(v, low) THEN low ELSE v

\* np.clip(x, low, high) == minimum(maximum(x, low), high); NaN stays NaN
clip(v, low, high) ==
    IF IsNaN(v) THEN NaN
    ELSE LET m == IF Lt(v, low) THEN low ELSE v
         IN  IF Gt(m, high) THEN high ELSE m

\* Calling a function value on an array: [out: the returned array,
\* log: the calls that reached provider methods, in order, as [f, arg]]
RECURSIVE Apply(_, _)
Apply(fn, x) ==
    CASE fn.wrap = "provider" ->
           [out |-> Arr(x.shape,
                        [i \in 1..Len(x.data) |-> Kernel(fn.f, x.data[i])]),
            log |-> << [f |-> fn.f, arg |-> x] >>]
      [] fn.wrap = "zeros" ->
           LET acceptable ==
                   MaskOf(x, LAMBDA v : zeros_acceptable(v, fn.low, fn.high))
               r == Apply(fn.inner, Take(x, acceptable))
           IN  [out |-> Arr(x.shape, Scatter(acceptable, r.out.data, Num(0))),
                log |-> r.log]
      [] fn.wrap = "zero_below" ->
           LET acceptable ==
                   MaskOf(x, LAMBDA v : zero_below_acceptable(v, fn.low, fn.high))
               r == Apply(fn.inner, Take(x, acceptable))
           IN  [out |-> Arr(x.shape, Scatter(acceptable, r.out.data, Num(0))),
                log |-> r.log]
      [] fn.wrap = "const" ->
           LET corrected_values ==
                   Arr(x.shape,
                       [i \in 1..Len(x.data) |-> clip(x.data[i], fn.low, fn.high)])
           IN  Apply(fn.inner, corrected_values)

\* result = full(e.shape, nan); ix = e >= 0; result[ix] = func(e[ix])
operate_on_valid(func, e) ==
    LET ix == MaskOf(e, LAMBDA v : Ge(v, Num(0)))
        arg == Take(e, ix)
        r == Apply(func, arg)
    IN  [out |-> Arr(e.shape, Scatter(ix, r.out.data, NaN)),
         arg |-> arg,
         log |-> r.log]

(***************************************************************************)
(* Canonical reaction names                                                *)
(***************************************************************************)
RX_SEPARATOR == "arrow"

DT_NAME == <<"T", "(", "d", ",", "n", ")", "sup4", "H", "e">>
DHE3_NAME == <<"sup3", "H", "e", "(", "d", ",", "p", ")", "sup4", "H", "e">>
DDT_NAME == <<"D", "(", "d", ",", "p", ")", "T">>
DDHE3_NAME == <<"D", "(", "d", ",", "n", ")", "sup3", "H", "e">>
PLI6_NAME == <<"sup6", "L", "i", "(", "p", ",", "h", ")", "sup4", "H", "e">>
PB11_NAME ==
    <<"sup1", "sup1", "B", "(", "p", ",", "alpha", ")", "2", "sup4", "H", "e">>
TT_NAME == <<"T", "(", "t", ",", "2", "n", ")", "sup4", "H", "e">>
HT_NAME == <<"sup3", "H", "e", "(", "t", ",", "p", "n", ")", "sup4", "H", "e">>
HTD_NAME == <<"sup3", "H", "e", "(", "t", ",", "d", ")", "sup4", "H", "e">>
HH_NAME == <<"sup3", "H", "e", "(", "h", ",", "2", "p", ")", "sup4", "H", "e">>
DLI6A_NAME == <<"sup6", "L", "i", "(", "d", ",", "alpha", ")", "sup4", "H", "e">>
DLI6N_NAME == <<"sup6", "L", "i", "(", "d", ",", "n", ")", "sup7", "B", "e">>
DLI6P_NAME == <<"sup6", "L", "i", "(", "d", ",", "p", ")", "sup7", "L", "i">>

ALL_REACTIONS ==
    <<DT_NAME, DHE3_NAME, DDT_NAME, DDHE3_NAME, PLI6_NAME, TT_NAME, HT_NAME,
      HTD_NAME, HH_NAME, DLI6A_NAME, DLI6N_NAME, DLI6P_NAME>>

Range(seq) == {seq[i] : i \in DOMAIN seq}

(***************************************************************************)
(* Strings                                                                 *)
(***************************************************************************)
StartsWith(s, prefix) ==
    Len(prefix) <= Len(s) /\ SubSeq(s, 1, Len(prefix)) = prefix

Drop(s, n) == SubSeq(s, n + 1, Len(s))

\* str.replace(old, new) for a non-empty old: leftmost, non-overlapping
RECURSIVE Replace(_, _, _)
Replace(s, old, new) ==
    IF s = <<>> THEN <<>>
    ELSE IF StartsWith(s, old) THEN new \o Replace(Drop(s, Len(old)), old, new)
    ELSE <<Head(s)>> \o Replace(Tail(s), old, new)

\* str.strip()
RECURSIVE LStrip(_)
LStrip(s) == IF s # <<>> /\ Head(s) = " " THEN LStrip(Tail(s)) ELSE s

RECURSIVE RStrip(_)
RStrip(s) ==
    IF s # <<>> /\ s[Len(s)] = " " THEN RStrip(SubSeq(s, 1, Len(s) - 1)) ELSE s

Strip(s) == RStrip(LStrip(s))

\* re.split / str.split on single characters: n separators give n + 1 parts
RECURSIVE SplitOn(_, _)
SplitOn(s, separators) ==
    IF \A i \in 1..Len(s) : s[i] \notin separators THEN <<s>>
    ELSE LET i == CHOOSE i \in 1..Len(s) :
                     /\ s[i] \in separators
                     /\ \A j \in 1..(i - 1) : s[j] \notin separators
         IN  <<SubSeq(s, 1, i - 1)>> \o SplitOn(Drop(s, i), separators)

\* separator.join(parts)
RECURSIVE Join(_, _)
Join(parts, separator) ==
    IF parts = <<>> THEN <<>>
    ELSE IF Len(parts) = 1 THEN parts[1]
    ELSE parts[1] \o separator \o Join(Tail(parts), separator)

Count(s, c) == Cardinality({i \in 1..Len(s) : s[i] = c})

(***************************************************************************)
(* Reaction names: particles, the reaction table and the parser            *)
(***************************************************************************)
Particles == {"n", "H1", "H2", "H3", "He3", "He4", "Li6", "Li7", "Be7", "B11"}

ION_SYNONYMS ==
    [n |-> << <<"n", "-", "1">>, <<"n">> >>,
     H1 |-> << <<"H", "-", "1">>, <<"sup1", "H">>, <<"H">>, <<"p">> >>,
     H2 |-> << <<"H", "-", "2">>, <<"sup2", "H">>, <<"D">>, <<"d">> >>,
     H3 |-> << <<"H", "-", "3">>, <<"sup3", "H">>, <<"T">>, <<"t">> >>,
     He3 |-> << <<"H", "e", "-", "3">>, <<"sup3", "H", "e">>, <<"h">> >>,
     He4 |-> << <<"H", "e", "-", "4">>, <<"sup4", "H", "e">>, <<"a">>,
                <<"alpha">> >>,
     Li6 |-> << <<"L", "i", "-", "6">>, <<"sup6", "L", "i">>, <<"6", "L", "i">> >>,
     Li7 |-> << <<"L", "i", "-", "7">>, <<"sup7", "L", "i">>, <<"7", "L", "i">> >>,
     Be7 |-> << <<"B", "e", "-", "7">>, <<"sup7", "B", "e">>, <<"7", "B", "e">>,
                <<"B", "e">> >>,
     B11 |-> << <<"B", "-", "1", "1">>, <<"sup1", "sup1", "B">>,
                <<"1", "1", "B">>, <<"B">> >>]

\* A lookup that knows the first spelling of each particle only
PARTICLE_LOOKUP_first(s) ==
    IF \E p \in Particles : s = ION_SYNONYMS[p][1]
    THEN CHOOSE p \in Particles : s = ION_SYNONYMS[p][1]
    ELSE "None"

\* PARTICLE_LOOKUP.get(s): the particle, or "None"
PARTICLE_LOOKUP(s) ==
    IF \E p \in Particles : s \in Range(ION_SYNONYMS[p])
    THEN CHOOSE p \in Particles : s \in Range(ION_SYNONYMS[p])
    ELSE "None"

\* _bag: the count of each particle among the arguments
bag(particles) ==
    [p \in Particles |-> Cardinality({i \in 1..Len(particles) : particles[i] = p})]

DT_REACTANTS == bag(<<"H2", "H3">>)
DHE3_REACTANTS == bag(<<"H2", "He3">>)
PLI6_REACTANTS == bag(<<"H1", "Li6">>)
PB11_REACTANTS == bag(<<"H1", "B11">>)
TT_REACTANTS == bag(<<"H3", "H3">>)
DD_REACTANTS == bag(<<"H2", "H2">>)
HH_REACTANTS == bag(<<"He3", "He3">>)
HT_REACTANTS == bag(<<"H3", "He3">>)
DLI6_REACTANTS == bag(<<"H2", "Li6">>)

\* _REACTIONS: (reactants, products) -> canonical name, in insertion order
REACTIONS ==
    <<[reactants |-> DT_REACTANTS, products |-> bag(<<"n", "He4">>),
       name |-> DT_NAME],
      [reactants |-> DHE3_REACTANTS, products |-> bag(<<"H1", "He4">>),
       name |-> DHE3_NAME],
      [reactants |-> PLI6_REACTANTS, products |-> bag(<<"He3", "He4">>),
       name |-> PLI6_NAME],
      [reactants |-> PB11_REACTANTS, products |-> bag(<<"He4", "He4", "He4">>),
       name |-> PB11_NAME],
      [reactants |-> TT_REACTANTS, products |-> bag(<<"He4", "n", "n">>),
       name |-> TT_NAME],
      [reactants |-> HH_REACTANTS, products |-> bag(<<"He4", "H1", "H1">>),
       name |-> HH_NAME],
      [reactants |-> DD_REACTANTS, products |-> bag(<<"H3", "H1">>),
       name |-> DDT_NAME],
      [reactants |-> DD_REACTANTS, products |-> bag(<<"He3", "n">>),
       name |-> DDHE3_NAME],
      [reactants |-> HT_REACTANTS, products |-> bag(<<"He4", "n", "H1">>),
       name |-> HT_NAME],
      [reactants |-> HT_REACTANTS, products |-> bag(<<"He4", "H2">>),
       name |-> HTD_NAME],
      [reactants |-> DLI6_REACTANTS, products |-> bag(<<"He4", "He4">>),
       name |-> DLI6A_NAME],
      [reactants |-> DLI6_REACTANTS, products |-> bag(<<"n", "Be7">>),
       name |-> DLI6N_NAME],
      [reactants |-> DLI6_REACTANTS, products |-> bag(<<"H1", "Li7">>),
       name |-> DLI6P_NAME]>>

\* The outcome of a function that returns a string, returns None or raises
Returned(value) == [error |-> "none", found |-> TRUE, value |-> value]
ReturnedNone == [error |-> "none", found |-> FALSE, value |-> <<>>]
Raised(error) == [error |-> error, found |-> FALSE, value |-> <<>>]

\* A lookup by the reactants alone: the first entry of the table with them
REACTIONS_get_by_reactants(reactants, products) ==
    LET hits == {i \in 1..Len(REACTIONS) : REACTIONS[i].reactants = reactants}
    IN  IF hits = {} THEN ReturnedNone
        ELSE Returned(REACTIONS[CHOOSE i \in hits : \A j \in hits : i <= j].name)

\* dict.get on the reaction table
REACTIONS_get(reactants, products) ==
    IF \E i \in 1..Len(REACTIONS) :
           REACTIONS[i].reactants = reactants /\ REACTIONS[i].products = products
    THEN Returned((CHOOSE r \in Range(REACTIONS) :
                       r.reactants = reactants /\ r.products = products).name)
    ELSE ReturnedNone

\* _generate_single_branch_list(_REACTIONS).get(reactants): the reactions
\* whose reactants occur once among the keys of the table
generate_single_branch_list(reactants) ==
    IF Cardinality({i \in 1..Len(REACTIONS) :
                        REACTIONS[i].reactants = reactants}) = 1
    THEN Returned((CHOOSE r \in Range(REACTIONS) : r.reactants = reactants).name)
    ELSE ReturnedNone

\* _to_particle: strip, then look up; "None" stands for the ValueError
to_particle(s) == PARTICLE_LOOKUP(Strip(s))

\* re.sub(r"-+>", "→", s) on the hyphen runs, then "," to "→"
RECURSIVE SubArrows(_)
SubArrows(s) ==
    IF s = <<>> THEN <<>>
    ELSE IF Head(s) = "-"
    THEN LET rest == Tail(s)
             k == IF \E i \in 1..Len(rest) : rest[i] # "-"
                  THEN CHOOSE i \in 1..Len(rest) :
                           rest[i] # "-" /\ \A j \in 1..(i - 1) : rest[j] = "-"
                  ELSE 0
         IN  IF k > 0 /\ rest[k] = ">"
             THEN <<RX_SEPARATOR>> \o SubArrows(Drop(rest, k))
             ELSE <<"-">> \o SubArrows(rest)
    ELSE <<Head(s)>> \o SubArrows(Tail(s))

\* A separator normalisation that knows "->" only
normalize_reaction_separators_single(s) ==
    Replace(Replace(s, <<"-", ">">>, <<RX_SEPARATOR>>), <<",">>, <<RX_SEPARATOR>>)

normalize_reaction_separators(s) ==
    Replace(SubArrows(s), <<",">>, <<RX_SEPARATOR>>)

count_reaction_separators(s) ==
    Count(normalize_reaction_separators(s), RX_SEPARATOR)

joinparticles(particles) == Join(particles, <<"+">>)

splitparticles(s) == SplitOn(s, {"(", ")", "+"})

searchable_particles ==
    << <<"n", "-", "1">>, <<"n">>, <<"p">>, <<"alpha">>, <<"h">>, <<"D">>,
       <<"T">>, <<"H", "e", "-", "3">>, <<"sup3", "H", "e">>,
       <<"H", "e", "-", "4">>, <<"sup4", "H", "e">>, <<"H", "-", "1">>,
       <<"H", "-", "2">>, <<"H", "-", "3">>, <<"H">> >>

\* _multiply_particles: re.match of (2|3)\s*(particle) at the start of the
\* stripped string; the first alternative that matches wins, and whatever
\* follows the match is dropped
multiply_particles(reaction_string) ==
    LET s == Strip(reaction_string)
        body == IF s = <<>> THEN <<>> ELSE LStrip(Tail(s))
        hits == {i \in 1..Len(searchable_particles) :
                     StartsWith(body, searchable_particles[i])}
    IN  IF s # <<>> /\ Head(s) \in {"2", "3"} /\ hits # {}
        THEN LET particle ==
                     searchable_particles[CHOOSE i \in hits : \A j \in hits : i <= j]
             IN  joinparticles([i \in 1..(IF Head(s) = "2" THEN 2 ELSE 3) |->
                                  particle])
        ELSE s

\* re.sub(r"pn|np", "p+n", s)
RECURSIVE SubProtonNeutron(_)
SubProtonNeutron(s) ==
    IF s = <<>> THEN <<>>
    ELSE IF StartsWith(s, <<"p", "n">>) \/ StartsWith(s, <<"n", "p">>)
    THEN <<"p", "+", "n">> \o SubProtonNeutron(Drop(s, 2))
    ELSE <<Head(s)>> \o SubProtonNeutron(Tail(s))

expand_particle_description(s) ==
    LET s1 == splitparticles(s)
        s2 == [i \in 1..Len(s1) |-> multiply_particles(s1[i])]
        s3 == joinparticles(s2)
    IN  SubProtonNeutron(s3)

\* _parse_reactants and _parse_products: [error, bag]
parse_particles(s, counts) ==
    LET particles == splitparticles(expand_particle_description(s))
        found == [i \in 1..Len(particles) |-> to_particle(particles[i])]
    IN  IF Len(particles) \notin counts \/ "None" \in Range(found)
        THEN [error |-> "ValueError", bag |-> bag(<<>>)]
        ELSE [error |-> "none", bag |-> bag(found)]

parse_reactants(s) == parse_particles(s, {2})

parse_products(s) == parse_particles(s, {2, 3})

\* _name_parser
name_parser(s) ==
    LET count == count_reaction_separators(s)
    IN  IF count > 1 THEN Raised("ValueError")
        ELSE IF count = 0
        THEN LET reactants == parse_reactants(s)
             IN  IF reactants.error # "none" THEN Raised(reactants.error)
                 ELSE generate_single_branch_list(reactants.bag)
        ELSE LET parts == SplitOn(normalize_reaction_separators(s), {RX_SEPARATOR})
                 reactants_description == parse_reactants(parts[1])
                 products_description == parse_products(parts[2])
             IN  IF reactants_description.error # "none"
                 THEN Raised(reactants_description.error)
                 ELSE IF products_description.error # "none"
                 THEN Raised(products_description.error)
                 ELSE REACTIONS_get(reactants_description.bag,
                                    products_description.bag)

\* reaction_name_simplify
reaction_name_simplify(reaction_name_raw) ==
    LET s0 == SelectSeq(reaction_name_raw, LAMBDA c : c # " ")
        digit(c) == CASE c = "sup1" -> "1" [] c = "sup2" -> "2"
                      [] c = "sup3" -> "3" [] c = "sup4" -> "4"
                      [] c = "sup6" -> "6" [] c = "sup7" -> "7"
                      [] OTHER -> c
        s1 == [i \in 1..Len(s0) |-> digit(s0[i])]
        s2 == Replace(s1, <<"-", ">">>, <<RX_SEPARATOR>>)
        s3 == Replace(s2, <<"-">>, <<"+">>)
    IN  Replace(s3, <<"alpha">>, <<"a">>)

\* The resolvers by list of spellings: the canonical name of the first
\* collection holding a spelling whose simplified form is that of the input;
\* no match raises ValueError
resolve_in(collections, reaction_raw_name) ==
    LET reaction_name == reaction_name_simplify(reaction_raw_name)
        hits == {i \in 1..Len(collections) :
                    \E n \in Range(collections[i].names) :
                        reaction_name = reaction_name_simplify(n)}
    IN  IF hits = {} THEN Raised("ValueError")
        ELSE Returned(collections[CHOOSE i \in hits : \A j \in hits : i <= j].returns)

bosch_name_resolver(reaction_raw_name) ==
    resolve_in(
        <<[returns |-> DT_NAME, names |-> <<DT_NAME, <<"D", "T">> >>],
          [returns |-> DHE3_NAME,
           names |-> <<DHE3_NAME, <<"D", "H", "e">>, <<"D", "3", "H", "e">>,
                       <<"D", "+", "3", "H", "e">>, <<"D", "H", "e", "3">> >>],
          [returns |-> DDHE3_NAME,
           names |-> <<DDHE3_NAME,
                       <<"D", "(", "d", ",", "n", ")", "3", "H", "e">>,
                       <<"D", "+", "D", "arrow", "n", "+", "3", "H", "e">>,
                       <<"D", "+", "D", "arrow", "3", "H", "e", "+", "n">>,
                       <<"sup2", "H", "+", "sup2", "H", "arrow", "n", "+", "3", "H", "e">>,
                       <<"sup2", "H", "+", "sup2", "H", "arrow", "3", "H", "e", "+", "n">> >>]>>,
        reaction_raw_name)

proton_boron_name_resolver(reaction_raw_name) ==
    resolve_in(
        <<[returns |-> PB11_NAME,
           names |-> <<PB11_NAME, <<"p", "B">>, <<"p", "B", "1", "1">> >>]>>,
        reaction_raw_name)

proton_lithium_name_resolver(reaction_raw_name) ==
    resolve_in(
        <<[returns |-> PLI6_NAME, names |-> << <<"p", "L", "i", "6">> >>]>>,
        reaction_raw_name)

\* _extra_name_resolver: the three resolvers in turn, their ValueErrors
\* swallowed
extra_name_resolver(reaction_raw_name) ==
    LET b == bosch_name_resolver(reaction_raw_name)
        pb == proton_boron_name_resolver(reaction_raw_name)
        pl == proton_lithium_name_resolver(reaction_raw_name)
    IN  IF b.found THEN b
        ELSE IF pb.found THEN pb
        ELSE IF pl.found THEN pl
        ELSE ReturnedNone

\* A resolver that hands back the simplified spelling of a canonical name
name_resolver_simplified(s) ==
    IF s \in Range(ALL_REACTIONS) THEN Returned(reaction_name_simplify(s))
    ELSE LET extra == extra_name_resolver(s)
             parsed == name_parser(s)
         IN  IF extra.found THEN Returned(reaction_name_simplify(extra.value))
             ELSE IF parsed.error # "none" THEN parsed
             ELSE IF parsed.found THEN parsed
             ELSE Raised("NameError")

\* name_resolver.  The closing raise formats its message with
\* reaction_raw_name, a name that is not bound in this function (the
\* parameter is s): evaluating the message raises NameError.
name_resolver(s) ==
    IF s \in Range(ALL_REACTIONS) THEN Returned(s)
    ELSE LET extra == extra_name_resolver(s)
             parsed == name_parser(s)
         IN  IF extra.found THEN extra
             ELSE IF parsed.error # "none" THEN parsed
             ELSE IF parsed.found THEN parsed
             ELSE Raised("NameError")

(***************************************************************************)
(* Providers and their parameters.  Energies live on a grid of model       *)
(* units; the tabulated samples and the fits' ranges are grid points.      *)
(***************************************************************************)
MAXW == "Maxwellian"
BIMAXW == "BiMaxwellian"

INTERPOLATION == "interpolation"
ANALYTIC == "analytic"
INTEGRATION == "integration"
ENDF == "ENDF"

FUNC == "function"
DERIV == "derivative"
PARAMS == "parameters"
OBJ == "object"

\* RAW + subfunction
RawKey(subfunction) ==
    IF subfunction = FUNC THEN "raw_function" ELSE "raw_derivative"

Parameter(nm, bounds, extrapolable_bounds, unit) ==
    [name |-> nm, bounds |-> bounds,
     extrapolable_bounds |-> extrapolable_bounds, unit |-> unit]

UPPER_LIMIT_MULTIPLIER == 10

\* ENDFCrossSection.x: the tabulated centre-of-mass energies, ascending
endf_x(rx) == <<2, 3>>

\* [min(self.x), max(self.x)]
prescribed_domain(rx) ==
    LET x == endf_x(rx) IN <<Num(x[1]), Num(x[Len(x)])>>

\* The energy at which the extrapolated cross section has fallen to
\* VERY_LOW_CROSS_SECTION: below the lowest tabulated energy, where the
\* tabulated cross section is far above that floor.
solve_for_energy_of_low_cross_section(rx) == Num(endf_x(rx)[1] - 1)

extrapolable_domain(rx) ==
    LET x == endf_x(rx)
    IN  <<solve_for_energy_of_low_cross_section(rx),
          Num(x[Len(x)] * UPPER_LIMIT_MULTIPLIER)>>

endf_parameters(rx) ==
    <<Parameter("Energy", prescribed_domain(rx), extrapolable_domain(rx), "keV")>>

\* BoschCrossSection.COEFFICIENTS / BoschRateCoeff.COEFFICIENTS keys
provides_reactions == {DT_NAME, DHE3_NAME, DDT_NAME, DDHE3_NAME}

\* BoschCrossSection.prescribed_range: [low, high] of the fit
bosch_prescribed_range(rx) == <<Num(1), Num(3)>>

\* The value of a Parameter's optional extrapolable bounds when the provider
\* gives none
NoBounds == <<>>

\* The fits give their prescribed range as the safe bounds and no
\* extrapolable bounds
bosch_parameters(rx) ==
    <<Parameter("Energy", bosch_prescribed_range(rx), NoBounds, "keV")>>

boschrate_parameters(rx) ==
    <<Parameter("Temperature", bosch_prescribed_range(rx), NoBounds, "keV")>>

(***************************************************************************)
(* The provider registry of a Reaction                                     *)
(***************************************************************************)
EmptyDict == [s \in {} |-> 0]

\* d[key] = value on a dict: the key is added when it is not there yet
Put(d, key, value) ==
    [k \in DOMAIN d \cup {key} |-> IF k = key THEN value ELSE d[k]]

cross_section_node(cls, parameters) ==
    [object |-> [class |-> cls],
     parameters |-> parameters[1],
     function |-> Method(<<cls, "cross_section">>),
     derivative |-> Method(<<cls, "derivative">>)]

ratecoeff_node(cls, parameters) ==
    [object |-> [class |-> cls],
     parameters |-> [tuple |-> parameters],
     function |-> Method(cls \o <<"rate_coefficient">>),
     derivative |-> Method(cls \o <<"derivative">>)]

\* A setter that installs the behaviour on the value and on the derivative
set_bounds_behavior_both(node, subfunction, bounds, behavior) ==
    LET node1 == Put(Put(node, RawKey(FUNC),
                         IF RawKey(FUNC) \in DOMAIN node
                         THEN node[RawKey(FUNC)] ELSE node[FUNC]),
                     RawKey(DERIV),
                     IF RawKey(DERIV) \in DOMAIN node
                     THEN node[RawKey(DERIV)] ELSE node[DERIV])
    IN  [node1 EXCEPT
           ![FUNC] = BEHAVIORS(behavior, node1[RawKey(FUNC)], bounds),
           ![DERIV] = BEHAVIORS(behavior, node1[RawKey(DERIV)], bounds)]

\* Reaction._set_bounds_behavior: the node after the call
\* A wrapper put around the function that is installed, wrapped or not
set_bounds_behavior_stacking(node, subfunction, bounds, behavior) ==
    LET raw_subfunction == RawKey(subfunction)
        node1 == IF raw_subfunction \in DOMAIN node
                 THEN node
                 ELSE Put(node, raw_subfunction, node[subfunction])
    IN  [node1 EXCEPT
           ![subfunction] = BEHAVIORS(behavior, node1[subfunction], bounds)]

set_bounds_behavior(node, subfunction, bounds, behavior) ==
    LET raw_subfunction == RawKey(subfunction)
        node1 == IF raw_subfunction \in DOMAIN node
                 THEN node
                 ELSE Put(node, raw_subfunction, node[subfunction])
    IN  [node1 EXCEPT
           ![subfunction] = BEHAVIORS(behavior, node1[raw_subfunction], bounds)]

\* A loader that cuts at the tabulated bounds
load_cross_section_ENDF_prescribed(rx, cs) ==
    LET node == cross_section_node("ENDFCrossSection", endf_parameters(rx))
        bounds == node[PARAMS].bounds
        n1 == set_bounds_behavior(node, FUNC, bounds, "zero_below")
        n2 == set_bounds_behavior(n1, DERIV, bounds, "const")
    IN  Put(cs, ENDF, n2)

load_cross_section_ENDF(rx, cs) ==
    LET node == cross_section_node("ENDFCrossSection", endf_parameters(rx))
        bounds == node[PARAMS].extrapolable_bounds
        n1 == set_bounds_behavior(node, FUNC, bounds, "zero_below")
        n2 == set_bounds_behavior(n1, DERIV, bounds, "const")
    IN  Put(cs, ENDF, n2)

has_analytic_fit(rx) == rx \in provides_reactions

load_cross_section_analytic(rx, cs) ==
    IF has_analytic_fit(rx)
    THEN LET node == cross_section_node("BoschCrossSection", bosch_parameters(rx))
             bounds == node[PARAMS].bounds
             n1 == set_bounds_behavior(node, FUNC, bounds, "zeros")
             n2 == set_bounds_behavior(n1, DERIV, bounds, "const")
         IN  Put(cs, ANALYTIC, n2)
    ELSE cs

\* A distribution entry that is started afresh by every loader
ensure_distribution_reset(rc, dist) == Put(rc, dist, EmptyDict)

\* if not self._ratecoeff.get(dist): self._ratecoeff[dist] = dict()
ensure_distribution(rc, dist) ==
    IF dist \in DOMAIN rc /\ DOMAIN rc[dist] # {}
    THEN rc
    ELSE Put(rc, dist, EmptyDict)

load_ratecoeff_analytic(rx, rc, dist) ==
    IF has_analytic_fit(rx) /\ dist = MAXW
    THEN LET rc1 == ensure_distribution(rc, dist)
             node == ratecoeff_node(<<"BoschRateCoeff">>, boschrate_parameters(rx))
             bounds == node[PARAMS].tuple[1].bounds
             n1 == set_bounds_behavior(node, FUNC, bounds, "zeros")
             n2 == set_bounds_behavior(n1, DERIV, bounds, "const")
         IN  Put(rc1, dist, Put(rc1[dist], ANALYTIC, n2))
    ELSE rc

\* rate_coefficient_integrator_factory.create(rcore, sigma, dist): the
\* integrator keeps the cross-section function it was given
\* An integrator that is handed the unwrapped ENDF function
load_integrator_raw(rx, cs, rc, dist) ==
    LET integrator == [class |-> <<"RateCoefficientIntegrator", dist>>,
                       sigma |-> cs[ENDF][RawKey(FUNC)]]
        node == [object |-> integrator,
                 function |-> Method(<<"RateCoefficientIntegrator", dist, "ratecoeff">>)]
        rc1 == ensure_distribution(rc, dist)
    IN  Put(rc1, dist, Put(rc1[dist], INTEGRATION, node))

load_integrator(rx, cs, rc, dist) ==
    LET integrator == [class |-> <<"RateCoefficientIntegrator", dist>>,
                       sigma |-> cs[ENDF][FUNC]]
        node == [object |-> integrator,
                 function |-> Method(<<"RateCoefficientIntegrator", dist, "ratecoeff">>)]
        rc1 == ensure_distribution(rc, dist)
    IN  Put(rc1, dist, Put(rc1[dist], INTEGRATION, node))

\* The parameters of a table interpolator: zip(descriptions, limits, units)
interpolator_parameters(rx, dist) ==
    IF dist = MAXW THEN <<"Temperature">> ELSE <<"T_perp", "T_parallel">>

\* tables: the distributions whose rate-coefficient table is in the data
\* directory for this reaction (ratecoeff_data_exists)
load_ratecoeff_interpolator(rx, rc, dist, tables) ==
    IF dist \in tables
    THEN LET node == ratecoeff_node(<<"RateCoefficientInterpolator", dist>>,
                                    interpolator_parameters(rx, dist))
             rc1 == ensure_distribution(rc, dist)
         IN  Put(rc1, dist, Put(rc1[dist], INTERPOLATION, node))
    ELSE rc

load_distribution(rx, cs, rc, dist, tables) ==
    LET rc1 == load_ratecoeff_analytic(rx, rc, dist)
        rc2 == load_integrator(rx, cs, rc1, dist)
    IN  load_ratecoeff_interpolator(rx, rc2, dist, tables)

\* Reaction.__init__: the registries of a new Reaction
ReactionCrossSections(rx) ==
    load_cross_section_analytic(rx, load_cross_section_ENDF(rx, EmptyDict))

ReactionRateCoefficients(rx, tables) ==
    LET cs == ReactionCrossSections(rx)
        rc1 == load_distribution(rx, cs, EmptyDict, MAXW, tables)
    IN  load_distribution(rx, cs, rc1, BIMAXW, tables)

(***************************************************************************)
(* rate_coefficient: option validation, pointwise and grid operators       *)
(***************************************************************************)
ANALYTIC_ONLY_MAXW == "Analytic formulas are only for the Maxwellian distribution."
NO_DIRECT_DERIVATIVES == "Derivatives are only available via interpolation or from an analytic formula."

\* An option check that lets derivatives by integration through
validate_ratecoeff_opts_lenient(distribution, scheme, derivatives) ==
    IF scheme = ANALYTIC /\ distribution # MAXW
    THEN <<ANALYTIC_ONLY_MAXW>> ELSE <<>>

\* Reaction._validate_ratecoeff_opts: the issues, in the order they are
\* appended; a non-empty list is raised as one ValueError
validate_ratecoeff_opts(distribution, scheme, derivatives) ==
    (IF scheme = ANALYTIC /\ distribution # MAXW
     THEN <<ANALYTIC_ONLY_MAXW>> ELSE <<>>)
    \o (IF derivatives /\ scheme = INTEGRATION
        THEN <<NO_DIRECT_DERIVATIVES>> ELSE <<>>)

\* Reaction._validate_ratecoeff_args: TRUE when no ValueError is raised
validate_ratecoeff_args(normalized_args, grid) ==
    grid = "true" =>
        \A i \in 1..Len(normalized_args) : Len(normalized_args[i].shape) = 1

SetMax(S) == CHOOSE m \in S : \A n \in S : n <= m

\* np.broadcast: shapes are aligned at their last axes
PadShape(shape, r) ==
    [i \in 1..r |-> IF i <= r - Len(shape) THEN 1 ELSE shape[i - (r - Len(shape))]]

BroadcastShape(shapes) ==
    LET r == SetMax({Len(shapes[k]) : k \in 1..Len(shapes)})
    IN  [i \in 1..r |-> SetMax({PadShape(shapes[k], r)[i] : k \in 1..Len(shapes)})]

Broadcastable(shapes) ==
    LET shape == BroadcastShape(shapes)
    IN  \A k \in 1..Len(shapes) : \A i \in 1..Len(shape) :
            PadShape(shapes[k], Len(shape))[i] \in {1, shape[i]}

Stride(shape, i) == Product(SubSeq(shape, i + 1, Len(shape)))

\* np.broadcast_arrays: the data of x seen with the broadcast shape
BroadcastTo(x, shape) ==
    LET p == PadShape(x.shape, Len(shape))
        source(k) ==
            LET RECURSIVE offset(_)
                offset(i) ==
                    IF i > Len(shape) THEN 0
                    ELSE (IF p[i] = 1 THEN 0
                          ELSE (((k - 1) \div Stride(shape, i)) % shape[i])
                               * Stride(p, i))
                         + offset(i + 1)
            IN  1 + offset(1)
    IN  Arr(shape, [k \in 1..Product(shape) |-> x.data[source(k)]])

\* The call signature of a provider method: the number of positional
\* arguments and whether a grid keyword is accepted
Signature(f) ==
    CASE f[1] = "RateCoefficientIntegrator" ->
           [arity |-> IF f[2] = MAXW THEN 1 ELSE 2, keywords |-> TRUE]
      [] f[1] = "RateCoefficientInterpolator" /\ f[2] = BIMAXW ->
           [arity |-> 2, keywords |-> TRUE]
      [] OTHER -> [arity |-> 1, keywords |-> FALSE]

\* A provider method whose body is "pass"
ReturnsNone(f) ==
    f = <<"RateCoefficientInterpolator", BIMAXW, "derivative">>

\* The 1-D table interpolator, which flushes log10(0) to a small exponent
FlushesZero(f) == f[1] = "RateCoefficientInterpolator" /\ f[2] = MAXW

\* The integrand is the cross section at the collision energy times weights:
\* at zero temperatures every collision energy is 0, where the integrator's
\* cross section function (zero at and below its lower bound) is 0
IntegratesToZero(f, vs) ==
    /\ f[1] = "RateCoefficientIntegrator"
    /\ \A i \in 1..Len(vs) : vs[i] = Num(0)

\* np.log10 of one element; [k |-> "log", v |-> n] is the finite log10(n)
log10(t) ==
    CASE IsNaN(t) -> NaN
      [] t.k = "inf" -> IF t.v = 1 THEN PosInf ELSE NaN
      [] t.v < 0 -> NaN
      [] t.v = 0 -> NegInf
      [] OTHER -> [k |-> "log", v |-> t.v]

very_small_exponent == -20

\* res = log10(t); res[isneginf(res)] = res[isnan(res)] = very_small_exponent
safe_log10(t) ==
    LET res == log10(t)
    IN  IF res = NegInf \/ IsNaN(res) THEN Num(very_small_exponent) ELSE res

\* np.maximum(t, lower_limit): NaN when either is NaN
ensure_lower_limit(t, lower_limit) ==
    IF IsNaN(t) THEN NaN
    ELSE IF Lt(t, lower_limit) THEN lower_limit ELSE t

\* 10 ** _parameter_limits: the table's temperature range on the grid
parameter_limits == << <<Num(1), Num(3)>> >>

\* InterpolatedUnivariateSpline(..., ext=0) and its derivative at one log
\* temperature: the end pieces are extrapolated, so that a finite argument
\* gives a finite value; at an infinite argument the polynomial's terms are
\* infinities of both signs and their sum is NaN
spline(f, x) ==
    IF IsFinite(x) THEN [k |-> "val", v |-> <<x>>, f |-> f] ELSE NaN

\* OneDHdfRateCoefficientInterpolator.rate_coefficient at one element
interpolator_rate_coefficient(f, t) == spline(f, safe_log10(t))

\* OneDHdfRateCoefficientInterpolator.derivative at one element:
\* val * interp_prime / temperatures on the temperatures raised to the limit
interpolator_derivative(f, t) ==
    LET temperatures == ensure_lower_limit(t, parameter_limits[1][1])
        val == spline(f, safe_log10(temperatures))
    IN  IF IsNaN(val) \/ IsNaN(temperatures) THEN NaN ELSE val

\* RectBivariateSpline at one point of np.log10 of the temperatures: the
\* evaluation moves an argument outside the table onto the table's edge
bivariate_spline(f, vs) ==
    LET logs == [i \in 1..Len(vs) |-> log10(vs[i])]
        tb == log10(parameter_limits[1][1])
        te == log10(parameter_limits[1][2])
        edge(x) == CASE x = NegInf -> tb
                     [] x = PosInf -> te
                     [] x.v < tb.v -> tb
                     [] x.v > te.v -> te
                     [] OTHER -> x
    IN  IF \E i \in 1..Len(vs) : IsNaN(logs[i]) THEN NaN
        ELSE [k |-> "val", v |-> [i \in 1..Len(vs) |-> edge(logs[i])], f |-> f]

\* The rate kernels at one point.  The table interpolators are above; an
\* integrator gives a finite value for finite non-negative temperatures; the
\* closed-form fit divides by the temperature and yields NaN at 0.
RateKernel(f, vs) ==
    CASE FlushesZero(f) ->
           IF f[3] = "derivative" THEN interpolator_derivative(f, vs[1])
           ELSE interpolator_rate_coefficient(f, vs[1])
      [] f[1] = "RateCoefficientInterpolator" -> bivariate_spline(f, vs)
      [] IntegratesToZero(f, vs) -> Num(0)
      [] OTHER ->
           IF /\ \A i \in 1..Len(vs) : vs[i].k = "num" /\ vs[i].v >= 0
              /\ (f[1] = "RateCoefficientIntegrator"
                    \/ \A i \in 1..Len(vs) : vs[i].v > 0)
           THEN [k |-> "val", v |-> [i \in 1..Len(vs) |-> vs[i].v], f |-> f]
           ELSE NaN

None == Arr(<<>>, <<>>)

Raise(error) == [error |-> error, out |-> None, log |-> <<>>]

\* A provider method called with 1-D arrays xs and the grid keyword
CallProvider(f, xs, grid) ==
    LET sig == Signature(f)
        shapes == [i \in 1..Len(xs) |-> xs[i].shape]
    IN  IF Len(xs) # sig.arity \/ (grid # "absent" /\ ~sig.keywords)
        THEN Raise("TypeError")
        ELSE IF ReturnsNone(f)
        THEN [error |-> "none", out |-> None, log |-> << [f |-> f, arg |-> xs] >>]
        ELSE IF grid = "true" /\ f[1] = "RateCoefficientInterpolator"
        THEN \* RectBivariateSpline on the grid, transposed
             LET n1 == Len(xs[1].data)
                 n2 == Len(xs[2].data)
             IN  [error |-> "none",
                  out |-> Arr(<<n2, n1>>,
                              [k \in 1..(n1 * n2) |->
                                 RateKernel(f, <<xs[1].data[((k - 1) % n1) + 1],
                                                 xs[2].data[((k - 1) \div n1) + 1]>>)]),
                  log |-> << [f |-> f, arg |-> xs] >>]
        ELSE IF ~Broadcastable(shapes)
        THEN Raise("ValueError")
        ELSE LET shape == BroadcastShape(shapes)
                 b == [i \in 1..Len(xs) |-> BroadcastTo(xs[i], shape)]
             IN  [error |-> "none",
                  out |-> Arr(shape,
                              [k \in 1..Product(shape) |->
                                 RateKernel(f, [i \in 1..Len(xs) |-> b[i].data[k]])]),
                  log |-> << [f |-> f, arg |-> xs] >>]

\* A registry function called as func(*xs, **kwargs): a wrapper takes one
\* positional argument and hands its keywords on to the wrapped function
RECURSIVE CallFunction(_, _, _)
CallFunction(fn, xs, grid) ==
    IF fn.wrap = "provider" THEN CallProvider(fn.f, xs, grid)
    ELSE IF Len(xs) # 1 THEN Raise("TypeError")
    ELSE LET x == xs[1]
             acceptable ==
                 IF fn.wrap = "zeros"
                 THEN MaskOf(x, LAMBDA v : zeros_acceptable(v, fn.low, fn.high))
                 ELSE MaskOf(x, LAMBDA v : zero_below_acceptable(v, fn.low, fn.high))
             passed ==
                 IF fn.wrap = "const"
                 THEN Arr(x.shape,
                          [i \in 1..Len(x.data) |-> clip(x.data[i], fn.low, fn.high)])
                 ELSE Take(x, acceptable)
             r == CallFunction(fn.inner, <<passed>>, grid)
         IN  IF r.error # "none" \/ fn.wrap = "const" THEN r
             ELSE [r EXCEPT !.out = Arr(x.shape, Scatter(acceptable, r.out.data, Num(0)))]

\* _operate_on_valid_entries_of_arrays
operate_on_valid_entries_of_arrays(func, args, grid) ==
    LET shapes == [i \in 1..Len(args) |-> args[i].shape]
    IN  IF ~Broadcastable(shapes) THEN Raise("ValueError")
        ELSE LET shape == BroadcastShape(shapes)
                 broadcasted_arrays == [i \in 1..Len(args) |-> BroadcastTo(args[i], shape)]
                 all_ok == [k \in 1..Product(shape) |->
                              \A i \in 1..Len(args) :
                                  IsFinite(broadcasted_arrays[i].data[k])]
                 valid_inputs == [i \in 1..Len(args) |-> Take(broadcasted_arrays[i], all_ok)]
                 r == CallFunction(func, valid_inputs, grid)
             IN  IF r.error # "none" THEN r
                 ELSE IF r.out = None
                 THEN [r EXCEPT !.out = Arr(shape, [k \in 1..Product(shape) |-> NaN])]
                 ELSE [r EXCEPT !.out = Arr(shape, Scatter(all_ok, r.out.data, NaN))]

\* np.insert(x, i, nan, axis) on an array of one or two dimensions
InsertNaN(x, i, axis) ==
    IF Len(x.shape) = 1
    THEN Arr(<<x.shape[1] + 1>>,
             SubSeq(x.data, 1, i) \o <<NaN>> \o SubSeq(x.data, i + 1, Len(x.data)))
    ELSE LET r == x.shape[1]
             c == x.shape[2]
         IN  IF axis = 0
             THEN Arr(<<r + 1, c>>,
                      SubSeq(x.data, 1, i * c) \o [k \in 1..c |-> NaN]
                      \o SubSeq(x.data, i * c + 1, Len(x.data)))
             ELSE Arr(<<r, c + 1>>,
                      [k \in 1..(r * (c + 1)) |->
                         LET a == (k - 1) \div (c + 1)
                             b == (k - 1) % (c + 1)
                         IN  IF b = i THEN NaN
                             ELSE x.data[a * c + (IF b < i THEN b ELSE b - 1) + 1]])

\* _insert_nans: one np.insert per index, in ascending order
RECURSIVE insert_nans(_, _, _)
insert_nans(x, indices, axis) ==
    IF indices = <<>> THEN x
    ELSE insert_nans(InsertNaN(x, Head(indices), axis), Tail(indices), axis)

\* np.where(~np.isfinite(arg))[0], 0-based and ascending
RECURSIVE BadIndices(_, _)
BadIndices(data, i) ==
    IF i > Len(data) THEN <<>>
    ELSE (IF IsFinite(data[i]) THEN <<>> ELSE <<i - 1>>) \o BadIndices(data, i + 1)

\* _operate_on_valid_entries_grid_mode
operate_on_valid_entries_grid_mode(func, args, grid) ==
    LET bad_indices == [i \in 1..Len(args) |-> BadIndices(args[i].data, 1)]
        kept == [i \in 1..Len(args) |->
                   Take(args[i], MaskOf(args[i], LAMBDA v : IsFinite(v)))]
        r == CallFunction(func, kept, grid)
        RECURSIVE hyperplanes(_, _)
        hyperplanes(result, i) ==
            IF i > Len(args) THEN [error |-> "none", out |-> result]
            ELSE IF bad_indices[i] = <<>> THEN hyperplanes(result, i + 1)
            ELSE IF Len(args) - i >= Len(result.shape)
            THEN [error |-> "AxisError", out |-> None]
            ELSE hyperplanes(insert_nans(result, bad_indices[i], Len(args) - i),
                             i + 1)
    IN  IF r.error # "none" THEN r
        ELSE LET h == hyperplanes(r.out, 1)
             IN  [r EXCEPT !.error = h.error, !.out = h.out]

(***************************************************************************)
(* Inputs                                                                  *)
(***************************************************************************)
MaxLen == 1
MaxSets == 1

Energies ==
    {NaN, PosInf, NegInf} \cup {Num(n) : n \in {-1, 0, 1, 2, 3, 4}}

RECURSIVE Tuples(_, _)
Tuples(S, n) ==
    IF n = 0 THEN {<<>>}
    ELSE {<<x>> \o t : x \in S, t \in Tuples(S, n - 1)}

\* Every 0-d and 1-d array of at most MaxLen elements
ArraysOver(S) ==
    {Arr(<<>>, <<x>>) : x \in S}
    \cup UNION {{Arr(<<n>>, d) : d \in Tuples(S, n)} : n \in 0..MaxLen}

\* The arrays of the repository's tests (test_reaction.py), on the grid:
\* array_with_zero, array_with_neg, array_with_neginf, array_with_inf,
\* array_with_nan, array_manybad, array_allnan, okay_values and
\* okay_values reshaped to two dimensions
TestArrays ==
    {Arr(<<2>>, <<Num(0), Num(2)>>),
     Arr(<<2>>, <<Num(-1), Num(2)>>),
     Arr(<<2>>, <<NegInf, Num(2)>>),
     Arr(<<2>>, <<Num(2), PosInf>>),
     Arr(<<2>>, <<NaN, Num(2)>>),
     Arr(<<3>>, <<NegInf, NaN, PosInf>>),
     Arr(<<3>>, <<NaN, NaN, NaN>>),
     Arr(<<5>>, <<Num(0), Num(1), Num(2), Num(3), Num(4)>>),
     Arr(<<3, 2>>, <<Num(0), Num(1), Num(2), Num(2), Num(3), Num(4)>>)}

EnergyInputs == ArraysOver(Energies) \cup TestArrays

MaxArgs == 2

\* Temperature arguments: a scalar, arrays with a zero, a negative and an
\* infinite entry, and a two-dimensional array
TemperatureArrays ==
    {Arr(<<>>, <<Num(1)>>),
     Arr(<<1>>, <<Num(0)>>),
     Arr(<<2>>, <<Num(1), Num(2)>>),
     Arr(<<2>>, <<Num(-1), Num(2)>>),
     Arr(<<3>>, <<Num(1), PosInf, Num(3)>>),
     Arr(<<2, 2>>, <<Num(1), Num(2), NaN, Num(4)>>)}

TemperatureInputs == UNION {Tuples(TemperatureArrays, n) : n \in 1..MaxArgs}

\* Reactions with and without a Bosch-Hale fit
RateReactions == {DT_NAME, TT_NAME}

Idle == [op |-> "none"]

(***************************************************************************)
(* Name resolution: the strings handed to name_resolver                    *)
(***************************************************************************)
\* ACCEPTABLE_REACTION_NAMES of tests/test_reactionnames.py, one entry per
\* (canonical name, spelling) pair
ACCEPTABLE_REACTION_NAMES ==
    <<[canonical |-> DT_NAME,
       raw |-> DT_NAME],
      [canonical |-> DT_NAME,
       raw |-> <<"D", "T">>],
      [canonical |-> DT_NAME,
       raw |-> <<"D", "+", "T">>],
      [canonical |-> DT_NAME,
       raw |-> <<"D", "+", "T", "arrow", "n", "+", "alpha">>],
      [canonical |-> DT_NAME,
       raw |-> <<"D", "+", "T", "arrow", "alpha", "+", "n">>],
      [canonical |-> DT_NAME,
       raw |-> <<"t", "(", "d", ",", "n", ")", "a">>],
      [canonical |-> DHE3_NAME,
       raw |-> DHE3_NAME],
      [canonical |-> DHE3_NAME,
       raw |-> <<"D", "H", "e", "3">>],
      [canonical |-> DHE3_NAME,
       raw |-> <<"D", "H", "e">>],
      [canonical |-> DHE3_NAME,
       raw |-> <<"D", "3", "H", "e">>],
      [canonical |-> DHE3_NAME,
       raw |-> <<"D", "+", "3", "H", "e">>],
      [canonical |-> DHE3_NAME,
       raw |-> <<"D", "+", "sup3", "H", "e">>],
      [canonical |-> DHE3_NAME,
       raw |-> <<"D", "+", "sup3", "H", "e", "arrow", "p", "+", "sup4", "H", "e">>],
      [canonical |-> DHE3_NAME,
       raw |-> <<"D", "+", "sup3", "H", "e", "arrow", "p", "+", "alpha">>],
      [canonical |-> DHE3_NAME,
       raw |-> <<"D", "+", "sup3", "H", "e", "arrow", "alpha", "+", "p">>],
      [canonical |-> DHE3_NAME,
       raw |-> <<"sup2", "H", " ", "+", "sup3", "H", "e", "-", "-", "-", "-", "-", ">", "a", "+", "p">>],
      [canonical |-> DHE3_NAME,
       raw |-> <<"h", "(", "d", ",", "p", ")", "a">>],
      [canonical |-> DDT_NAME,
       raw |-> DDT_NAME],
      [canonical |-> DDT_NAME,
       raw |-> <<"D", "+", "D", "arrow", "p", "+", "T">>],
      [canonical |-> DDT_NAME,
       raw |-> <<"D", "+", "D", "arrow", "T", "+", "p">>],
      [canonical |-> DDT_NAME,
       raw |-> <<"sup2", "H", "+", "sup2", "H", "arrow", "sup3", "H", "+", "sup1", "H">>],
      [canonical |-> DDT_NAME,
       raw |-> <<"sup2", "H", "+", "sup2", "H", "arrow", "sup1", "H", "+", "sup3", "H">>],
      [canonical |-> DDT_NAME,
       raw |-> <<"d", "(", "d", ",", "p", ")", "t">>],
      [canonical |-> DDHE3_NAME,
       raw |-> DDHE3_NAME],
      [canonical |-> DDHE3_NAME,
       raw |-> <<"D", "+", "D", "arrow", "n", "+", "3", "H", "e">>],
      [canonical |-> DDHE3_NAME,
       raw |-> <<"D", "+", "D", "arrow", "3", "H", "e", "+", "n">>],
      [canonical |-> DDHE3_NAME,
       raw |-> <<"sup2", "H", "+", "sup2", "H", "arrow", "n", "+", "3", "H", "e">>],
      [canonical |-> DDHE3_NAME,
       raw |-> <<"sup2", "H", "+", "sup2", "H", "arrow", "3", "H", "e", "+", "n">>],
      [canonical |-> DDHE3_NAME,
       raw |-> <<"d", "(", "d", ",", "n", ")", "h">>],
      [canonical |-> TT_NAME,
       raw |-> TT_NAME],
      [canonical |-> TT_NAME,
       raw |-> <<"2", "T">>],
      [canonical |-> TT_NAME,
       raw |-> <<"T", "+", "T">>],
      [canonical |-> TT_NAME,
       raw |-> <<"T", " ", "+", " ", "T", " ", "-", ">", " ", "a", " ", "+", " ", "2", "n">>],
      [canonical |-> TT_NAME,
       raw |-> <<"t", "(", "t", ",", "2", "n", ")", "a">>],
      [canonical |-> HH_NAME,
       raw |-> HH_NAME],
      [canonical |-> HH_NAME,
       raw |-> <<"h", " ", "+", " ", "h", " ", "-", ">", " ", "2", " ", "p", " ", "+", " ", "a">>],
      [canonical |-> HH_NAME,
       raw |-> <<"h", "(", "h", ",", "2", "p", ")", "a">>],
      [canonical |-> HT_NAME,
       raw |-> HT_NAME],
      [canonical |-> HT_NAME,
       raw |-> <<"h", " ", "+", " ", "t", " ", "-", ">", " ", "p", " ", "+", " ", "n", " ", "+", " ", "a">>],
      [canonical |-> HT_NAME,
       raw |-> <<"h", "(", "t", ",", "p", "n", ")", "a">>],
      [canonical |-> HT_NAME,
       raw |-> <<"h", "(", "t", ",", "n", "p", ")", "a">>],
      [canonical |-> HTD_NAME,
       raw |-> HTD_NAME],
      [canonical |-> HTD_NAME,
       raw |-> <<"h", " ", "+", " ", "t", " ", "-", ">", " ", "d", " ", "+", " ", "a">>],
      [canonical |-> HTD_NAME,
       raw |-> <<"h", "(", "t", ",", "d", ")", "a">>],
      [canonical |-> PB11_NAME,
       raw |-> PB11_NAME],
      [canonical |-> PB11_NAME,
       raw |-> <<"p", "B">>],
      [canonical |-> PB11_NAME,
       raw |-> <<"p", "B", "1", "1">>],
      [canonical |-> PB11_NAME,
       raw |-> <<"p", "+", "B">>],
      [canonical |-> PB11_NAME,
       raw |-> <<"p", "+", "1", "1", "B">>],
      [canonical |-> PB11_NAME,
       raw |-> <<"p", "+", "1", "1", "B", "arrow", "3", "alpha">>],
      [canonical |-> PB11_NAME,
       raw |-> <<"p", "+", "1", "1", "B", "arrow", "3", " ", "sup4", "H", "e">>],
      [canonical |-> PLI6_NAME,
       raw |-> PLI6_NAME],
      [canonical |-> PLI6_NAME,
       raw |-> <<"p", "L", "i", "6">>],
      [canonical |-> PLI6_NAME,
       raw |-> <<"p", " ", "+", " ", "sup6", "L", "i">>],
      [canonical |-> PLI6_NAME,
       raw |-> <<"p", " ", "+", " ", "sup6", "L", "i", " ", "-", "-", ">", " ", "h", " ", "+", " ", "alpha">>],
      [canonical |-> PLI6_NAME,
       raw |-> <<"6", "L", "i", "(", "p", ",", "h", ")", "a">>],
      [canonical |-> PLI6_NAME,
       raw |-> <<"p", "+", "sup6", "L", "i", "-", ">", "sup4", "H", "e", "+", "sup3", "H", "e">>],
      [canonical |-> DLI6A_NAME,
       raw |-> DLI6A_NAME],
      [canonical |-> DLI6A_NAME,
       raw |-> <<"6", "L", "i", "(", "d", ",", "a", ")", "a">>],
      [canonical |-> DLI6N_NAME,
       raw |-> DLI6N_NAME],
      [canonical |-> DLI6N_NAME,
       raw |-> <<"6", "L", "i", "(", "d", ",", "n", ")", "7", "B", "e">>],
      [canonical |-> DLI6N_NAME,
       raw |-> <<"6", "L", "i", "+", "d", "-", "-", ">", "n", "+", "sup7", "B", "e">>],
      [canonical |-> DLI6N_NAME,
       raw |-> <<"6", "L", "i", "+", "d", "-", "-", ">", "n", "+", "B", "e">>],
      [canonical |-> DLI6P_NAME,
       raw |-> DLI6P_NAME],
      [canonical |-> DLI6P_NAME,
       raw |-> <<"6", "L", "i", "(", "d", ",", "p", ")", "7", "L", "i">>],
      [canonical |-> DLI6P_NAME,
       raw |-> <<"6", "L", "i", "+", "d", "-", "-", ">", "p", "+", "sup7", "L", "i">>]>>

CanonicalNames == Range(ALL_REACTIONS) \cup {PB11_NAME}

\* Strings that are not spellings of one reaction, and spaced or reordered
\* spellings that are
OtherNames ==
    {<<"b", "a", "d">>,
     <<>>,
     <<"D", "+", "D">>,
     <<"D", "D">>,
     <<"2", "D">>,
     <<"D", "+", "p">>,
     <<"D", "-", "T">>,
     <<"D", "+", "T", "+", "T">>,
     <<"D", "+", "T", "arrow", "n">>,
     <<"D", "+", "T", "arrow", "alpha", "+", "n", "+", "n">>,
     <<"a", "arrow", "b", "arrow", "c">>,
     <<"T", "(", "d", ",", "n", ")">>,
     <<"3", "H", "e", "+", "D">>,
     <<"D", "+", "H", "e">>,
     <<"p", "+", "B", "arrow", "3", "a">>,
     <<"D", " ", "+", " ", "H", "e", "-", "3">>,
     <<"D", " ", "+", " ", "D", " ", "-", ">", " ", "n", " ", "+", " ", "h">>,
     <<"D", " ", "+", " ", "D", " ", "-", "-", ">", " ", "T", " ", "+", " ", "p">>,
     <<"h", " ", "+", " ", "t">>,
     <<"6", "L", "i", " ", "+", " ", "d">>,
     <<"2", " ", "h">>,
     <<"T", " ", "+", " ", "D">>,
     <<"D", "+", "T", "-", ">", "n", "+", "a", "-", ">", "p">>}

AllSynonyms == UNION {Range(ION_SYNONYMS[p]) : p \in Particles}

\* One spelling per particle
ShortSynonyms ==
    {<<"n">>, <<"p">>, <<"D">>, <<"T">>, <<"h">>, <<"alpha">>, <<"6", "L", "i">>,
     <<"7", "L", "i">>, <<"B", "e">>, <<"B">>}

\* Every pair of particle spellings as reactants without products
ReactantOnlyNames == {x \o <<"+">> \o y : x, y \in AllSynonyms}

\* The short spellings of the particles that react in the table
ReactantSynonyms ==
    {<<"p">>, <<"D">>, <<"T">>, <<"h">>, <<"6", "L", "i">>, <<"B">>}

\* Two reactants and two products in their short spellings
ExplicitNames ==
    {x \o <<"+">> \o y \o <<RX_SEPARATOR>> \o z \o <<"+">> \o w :
        x, y \in ReactantSynonyms, z, w \in ShortSynonyms}

RawNames ==
    CanonicalNames
    \cup {ACCEPTABLE_REACTION_NAMES[i].raw : i \in DOMAIN ACCEPTABLE_REACTION_NAMES}
    \cup OtherNames \cup ReactantOnlyNames \cup ExplicitNames

(***************************************************************************)
(* Reaction: construction and public operations                            *)
(***************************************************************************)
InitReaction(names, tableChoices) ==
    /\ name \in names
    /\ \E tables \in tableChoices :
          /\ cross = ReactionCrossSections(name)
          /\ rate = ReactionRateCoefficients(name, tables)
    /\ nsets = 0
    /\ call = Idle
    /\ raw = <<>>
    /\ resolved = Idle

\* Reaction.cross_section(e, scheme, derivatives)
CrossSection(e, scheme, derivatives) ==
    /\ call = Idle
    /\ call' =
         IF scheme \notin DOMAIN cross
         THEN [op |-> "cross_section", scheme |-> scheme,
               derivatives |-> derivatives, e |-> e, error |-> "KeyError"]
         ELSE LET node == cross[scheme]
                  key == IF derivatives THEN DERIV ELSE FUNC
                  func == node[key]
                  en == normalize_energy(e)
                  r == operate_on_valid(func, en)
              IN  [op |-> "cross_section", scheme |-> scheme,
                   derivatives |-> derivatives, e |-> e, error |-> "none",
                   func |-> func, arg |-> r.arg, log |-> r.log,
                   result |-> r.out]
    /\ UNCHANGED <<name, cross, rate, nsets, raw, resolved>>

\* Reaction._get_function_node, then the rest of set_extrapolation_behavior
SetExtrapolationBehavior(which, scheme, distribution, derivatives, behavior, extrapolable) ==
    LET rec(err) == [op |-> "set_extrapolation_behavior", which |-> which,
                     scheme |-> scheme, distribution |-> distribution,
                     derivatives |-> derivatives, behavior |-> behavior,
                     extrapolable |-> extrapolable, error |-> err]
        known == which \in {"cross section", "rate coefficient"}
        hasTree == which = "cross section" \/ distribution \in DOMAIN rate
        tree == IF which = "cross section" THEN cross ELSE rate[distribution]
        node == tree[scheme]
        params == node[PARAMS]
        bounds == IF extrapolable THEN params.extrapolable_bounds
                  ELSE params.bounds
        subfunction == IF derivatives THEN DERIV ELSE FUNC
        error ==
            CASE ~known -> "ValueError"
              [] ~hasTree -> "KeyError"
              [] scheme \notin DOMAIN tree -> "KeyError"
              [] PARAMS \notin DOMAIN node -> "KeyError"
              [] "bounds" \notin DOMAIN params -> "AttributeError"
              [] subfunction \notin DOMAIN node -> "KeyError"
              [] behavior \notin BehaviorNames -> "KeyError"
              [] behavior # "raw" /\ bounds = NoBounds -> "TypeError"
              [] OTHER -> "none"
        node2 == set_bounds_behavior(node, subfunction, bounds, behavior)
    IN  /\ call = Idle
        /\ nsets < MaxSets
        /\ nsets' = nsets + 1
        /\ call' = rec(error)
        /\ cross' = IF error = "none" /\ which = "cross section"
                    THEN [cross EXCEPT ![scheme] = node2]
                    ELSE cross
        /\ rate' = IF error = "none" /\ which = "rate coefficient"
                   THEN [rate EXCEPT ![distribution][scheme] = node2]
                   ELSE rate
        /\ UNCHANGED <<name, raw, resolved>>

\* Reaction.rate_coefficient(*args, distribution, scheme, derivatives, grid):
\* steps lists the stages the call went through before it returned or raised
RateCoefficient(args, distribution, scheme, derivatives, grid) ==
    LET rec == [op |-> "rate_coefficient", args |-> args,
                distribution |-> distribution, scheme |-> scheme,
                derivatives |-> derivatives, grid |-> grid,
                issues |-> <<>>, log |-> <<>>, result |-> None]
        issues == validate_ratecoeff_opts(distribution, scheme, derivatives)
        key == IF derivatives THEN DERIV ELSE FUNC
        found == /\ distribution \in DOMAIN rate
                 /\ scheme \in DOMAIN rate[distribution]
                 /\ key \in DOMAIN rate[distribution][scheme]
        func == rate[distribution][scheme][key]
        normalized_args == [i \in 1..Len(args) |-> normalize_energy(args[i])]
        r == IF grid = "true"
             THEN operate_on_valid_entries_grid_mode(func, normalized_args, grid)
             ELSE operate_on_valid_entries_of_arrays(func, normalized_args, grid)
    IN  /\ call = Idle
        /\ call' =
             IF issues # <<>>
             THEN [rec EXCEPT !.issues = issues] @@
                  [error |-> "ValueError",
                   steps |-> <<"validate_ratecoeff_opts">>]
             ELSE IF ~found
             THEN rec @@
                  [error |-> "KeyError",
                   steps |-> <<"validate_ratecoeff_opts", "lookup">>]
             ELSE IF ~validate_ratecoeff_args(normalized_args, grid)
             THEN rec @@
                  [error |-> "ValueError",
                   steps |-> <<"validate_ratecoeff_opts", "lookup",
                               "normalize_energy", "validate_ratecoeff_args">>]
             ELSE [rec EXCEPT !.log = r.log, !.result = r.out] @@
                  [error |-> r.error,
                   steps |-> <<"validate_ratecoeff_opts", "lookup",
                               "normalize_energy", "validate_ratecoeff_args",
                               "safe_operator">>]
        /\ UNCHANGED <<name, cross, rate, nsets, raw, resolved>>

\* The caller takes the outcome of the last call
Return ==
    /\ call.op \notin {"none", "__init__"}
    /\ call' = Idle
    /\ UNCHANGED <<name, cross, rate, nsets, raw, resolved>>

Schemes == {ENDF, ANALYTIC, INTERPOLATION, INTEGRATION}
Distributions == {MAXW, BIMAXW}

CrossSectionCall ==
    \E e \in EnergyInputs, scheme \in {ENDF, ANALYTIC},
       derivatives \in BOOLEAN :
        CrossSection(e, scheme, derivatives)

SetExtrapolationBehaviorCall ==
    \E which \in {"cross section", "rate coefficient", "cross_section"},
       scheme \in Schemes, distribution \in Distributions,
       derivatives \in BOOLEAN, behavior \in BehaviorNames \cup {"linear"},
       extrapolable \in BOOLEAN :
        SetExtrapolationBehavior(which, scheme, distribution, derivatives,
                                 behavior, extrapolable)

\* Two reactions of ALL_REACTIONS that have an analytic fit and two that
\* have none: the registries of the other reactions are those of these,
\* under another name
ConstructedReactions == {DT_NAME, DDHE3_NAME, TT_NAME, PLI6_NAME}

Init == InitReaction(ConstructedReactions, {{MAXW, BIMAXW}})

Next ==
    \/ CrossSectionCall
    \/ SetExtrapolationBehaviorCall
    \/ Return

Spec == Init /\ [][Next]_vars

(***************************************************************************)
(* Rate coefficients of Reactions built with any set of tables on disk     *)
(***************************************************************************)
RateCoefficientCall ==
    \E args \in TemperatureInputs, distribution \in Distributions,
       scheme \in {ANALYTIC, INTERPOLATION, INTEGRATION},
       derivatives \in BOOLEAN, grid \in {"absent", "false", "true"} :
        RateCoefficient(args, distribution, scheme, derivatives, grid)

InitRate == InitReaction(RateReactions, {{MAXW}, {MAXW, BIMAXW}})

NextRate ==
    \/ RateCoefficientCall
    \/ Return

SpecRate == InitRate /\ [][NextRate]_vars

(***************************************************************************)
(* A Reaction from the first statement of its constructor on, under every  *)
(* public operation                                                        *)
(***************************************************************************)
\* Reaction.__init__: the loaders in the order the constructor calls them
InitSteps ==
    << [loader |-> "_load_cross_section_ENDF", dist |-> MAXW],
       [loader |-> "_load_cross_section_analytic", dist |-> MAXW],
       [loader |-> "_load_ratecoeff_analytic", dist |-> MAXW],
       [loader |-> "_load_integrator", dist |-> MAXW],
       [loader |-> "_load_ratecoeff_interpolator", dist |-> MAXW],
       [loader |-> "_load_ratecoeff_analytic", dist |-> BIMAXW],
       [loader |-> "_load_integrator", dist |-> BIMAXW],
       [loader |-> "_load_ratecoeff_interpolator", dist |-> BIMAXW] >>

\* One loader call of the constructor; the constructor returns after the last
Load ==
    /\ call.op = "__init__"
    /\ LET step == InitSteps[call.pc]
       IN  /\ cross' =
                CASE step.loader = "_load_cross_section_ENDF" ->
                       load_cross_section_ENDF(name, cross)
                  [] step.loader = "_load_cross_section_analytic" ->
                       load_cross_section_analytic(name, cross)
                  [] OTHER -> cross
           /\ rate' =
                CASE step.loader = "_load_ratecoeff_analytic" ->
                       load_ratecoeff_analytic(name, rate, step.dist)
                  [] step.loader = "_load_integrator" ->
                       load_integrator(name, cross, rate, step.dist)
                  [] step.loader = "_load_ratecoeff_interpolator" ->
                       load_ratecoeff_interpolator(name, rate, step.dist, call.tables)
                  [] OTHER -> rate
    /\ call' = IF call.pc = Len(InitSteps) THEN Idle
               ELSE [call EXCEPT !.pc = @ + 1]
    /\ UNCHANGED <<name, nsets, raw, resolved>>

\* Reaction.available_cross_sections: list(self._cross_section.keys())
AvailableCrossSections ==
    /\ call = Idle
    /\ call' = [op |-> "available_cross_sections", error |-> "none",
                result |-> DOMAIN cross]
    /\ UNCHANGED <<name, cross, rate, nsets, raw, resolved>>

\* Reaction.available_distributions: list(self._ratecoeff.keys())
AvailableDistributions ==
    /\ call = Idle
    /\ call' = [op |-> "available_distributions", error |-> "none",
                result |-> DOMAIN rate]
    /\ UNCHANGED <<name, cross, rate, nsets, raw, resolved>>

\* Reaction.available_rate_coefficient_schemes(distribution)
AvailableRateCoefficientSchemes(distribution) ==
    /\ call = Idle
    /\ call' = IF distribution \in DOMAIN rate
               THEN [op |-> "available_rate_coefficient_schemes",
                     distribution |-> distribution, error |-> "none",
                     result |-> DOMAIN rate[distribution]]
               ELSE [op |-> "available_rate_coefficient_schemes",
                     distribution |-> distribution, error |-> "KeyError",
                     result |-> {}]
    /\ UNCHANGED <<name, cross, rate, nsets, raw, resolved>>

\* The arguments of the public calls: an energy array with a boundary value,
\* an invalid scalar, and temperatures for one and for two parameters
PublicEnergies ==
    {Arr(<<2>>, <<Num(0), Num(2)>>), Arr(<<>>, <<NaN>>)}

PublicTemperatures ==
    { <<Arr(<<2>>, <<Num(1), Num(2)>>)>>,
      <<Arr(<<1>>, <<Num(0)>>), Arr(<<1>>, <<Num(2)>>)>> }

PublicCrossSectionCall ==
    \E e \in PublicEnergies, scheme \in {ENDF, ANALYTIC},
       derivatives \in BOOLEAN :
        CrossSection(e, scheme, derivatives)

PublicRateCoefficientCall ==
    \E args \in PublicTemperatures, distribution \in Distributions,
       scheme \in {ANALYTIC, INTERPOLATION, INTEGRATION},
       derivatives \in BOOLEAN :
        RateCoefficient(args, distribution, scheme, derivatives, "absent")

PublicSetExtrapolationBehaviorCall ==
    \E which \in {"cross section", "rate coefficient", "cross_section"},
       scheme \in {ENDF, ANALYTIC, INTERPOLATION},
       derivatives \in BOOLEAN, behavior \in {"zeros", "const", "raw"},
       extrapolable \in BOOLEAN :
        SetExtrapolationBehavior(which, scheme, MAXW, derivatives, behavior, extrapolable)

AvailableRateCoefficientSchemesCall ==
    \E distribution \in Distributions \cup {"Kappa"} :
        AvailableRateCoefficientSchemes(distribution)

InitPublic ==
    /\ name \in ConstructedReactions
    /\ cross = EmptyDict
    /\ rate = EmptyDict
    /\ \E tables \in SUBSET Distributions :
          call = [op |-> "__init__", pc |-> 1, tables |-> tables]
    /\ nsets = 0
    /\ raw = <<>>
    /\ resolved = Idle

NextPublic ==
    \/ Load
    \/ PublicCrossSectionCall
    \/ PublicRateCoefficientCall
    \/ PublicSetExtrapolationBehaviorCall
    \/ AvailableCrossSections
    \/ AvailableDistributions
    \/ AvailableRateCoefficientSchemesCall
    \/ Return

SpecPublic == InitPublic /\ [][NextPublic]_vars

(***************************************************************************)
(* Name resolution of any of the strings above                             *)
(***************************************************************************)
\* name_resolver(raw)
ResolveName ==
    /\ resolved = Idle
    /\ resolved' = [op |-> "name_resolver"] @@ name_resolver(raw)
    /\ UNCHANGED <<name, cross, rate, nsets, call, raw>>

InitNames ==
    /\ raw \in RawNames
    /\ resolved = Idle
    /\ name = DT_NAME
    /\ cross = ReactionCrossSections(DT_NAME)
    /\ rate = ReactionRateCoefficients(DT_NAME, {})
    /\ nsets = 0
    /\ call = Idle

NextNames == ResolveName

SpecNames == InitNames /\ [][NextNames]_vars

(***************************************************************************)
(* The species of a reaction name: target_species, beam_species, reactants *)
(***************************************************************************)
\* s.split("(")[0]
target_species(s) == SplitOn(s, {"("})[1]

\* A conversion that takes the upper case of the letter
particle_form_to_target_form_upper(s) ==
    CASE s = <<"p">> -> Returned(<<"H">>)
      [] s = <<"d">> -> Returned(<<"D">>)
      [] s = <<"t">> -> Returned(<<"T">>)
      [] s = <<"h">> -> Returned(<<"H">>)
      [] OTHER -> Raised("KeyError")

\* d = {"p": "H", "d": "D", "t": "T", "h": "³He"}; d[s]
particle_form_to_target_form(s) ==
    CASE s = <<"p">> -> Returned(<<"H">>)
      [] s = <<"d">> -> Returned(<<"D">>)
      [] s = <<"t">> -> Returned(<<"T">>)
      [] s = <<"h">> -> Returned(<<"sup3", "H", "e">>)
      [] OTHER -> Raised("KeyError")

\* s.split(",")[0].split("(")[1], converted
beam_species(s) ==
    LET parts == SplitOn(SplitOn(s, {","})[1], {"("})
    IN  IF Len(parts) < 2 THEN Raised("IndexError")
        ELSE particle_form_to_target_form(parts[2])

\* reactants(s): beam, target
species_reactants(s) ==
    LET beam == beam_species(s)
    IN  IF beam.error # "none" THEN beam
        ELSE Returned(<<beam.value, target_species(s)>>)

TargetSpecies ==
    /\ resolved = Idle
    /\ resolved' = [op |-> "target_species"] @@ Returned(target_species(raw))
    /\ UNCHANGED <<name, cross, rate, nsets, call, raw>>

BeamSpecies ==
    /\ resolved = Idle
    /\ resolved' = [op |-> "beam_species"] @@ beam_species(raw)
    /\ UNCHANGED <<name, cross, rate, nsets, call, raw>>

Reactants ==
    /\ resolved = Idle
    /\ resolved' = [op |-> "reactants"] @@ species_reactants(raw)
    /\ UNCHANGED <<name, cross, rate, nsets, call, raw>>

NextSpecies ==
    \/ TargetSpecies
    \/ BeamSpecies
    \/ Reactants

SpecSpecies == InitNames /\ [][NextSpecies]_vars

(***************************************************************************)
(* The one-dimensional table interpolator called on its own, as the tests  *)
(* of interpolators.py call it                                             *)
(***************************************************************************)
MaxTemperatures == 2

InterpolatorTemperatures ==
    {NaN, PosInf, NegInf} \cup {Num(n) : n \in {-1, 0, 1, 2}}

\* A number (np.log10 of it is a scalar) and every array of at most
\* MaxTemperatures temperatures
InterpolatorInputs ==
    {Arr(<<>>, <<x>>) : x \in InterpolatorTemperatures}
    \cup UNION {{Arr(<<n>>, d) : d \in Tuples(InterpolatorTemperatures, n)} :
                   n \in 0..MaxTemperatures}

\* res[np.isneginf(res)] = ... in _safe_log10 is an item assignment: the
\* logarithm of a number or of a 0-d array is a scalar, which supports none
OneDInterpolator(method, temperatures) ==
    IF temperatures.shape = <<>> THEN Raise("TypeError")
    ELSE CallProvider(<<"RateCoefficientInterpolator", MAXW, method>>,
                      <<temperatures>>, "absent")

InterpolatorCall ==
    \E method \in {"rate_coefficient", "derivative"},
       temperatures \in InterpolatorInputs :
        LET r == OneDInterpolator(method, temperatures)
        IN  /\ call = Idle
            /\ call' = [op |-> "interpolator", method |-> method,
                        temperatures |-> temperatures, error |-> r.error,
                        result |-> r.out]
            /\ UNCHANGED <<name, cross, rate, nsets, raw, resolved>>

InitInterpolator == InitReaction({DT_NAME, DDHE3_NAME}, {{MAXW}})

NextInterpolator ==
    \/ InterpolatorCall
    \/ Return

SpecInterpolator == InitInterpolator /\ [][NextInterpolator]_vars

(***************************************************************************)
(* The Bosch-Hale cross section fits with two energy ranges, called on     *)
(* their own                                                               *)
(***************************************************************************)
\* The reactions whose COEFFICIENTS hold two lists of a and b
has_multiple_ranges == {DT_NAME, DHE3_NAME}

\* COEFFICIENTS[name]["transition"], keV
transition(rx) == IF rx = DT_NAME THEN Num(530) ELSE Num(900)

\* An energy whose powers overflow the floating point range in the
\* polynomials of S(e); it stands for 1e160 keV
Overflowing == 1000000000

\* BoschCrossSectionCalc built on one coefficient set, at one element.
\* cross_section is S(e) / (e exp(Bg / sqrt(e))): a finite value for a
\* positive finite energy, NaN at 0 (0 times infinity), at a negative
\* energy (its square root), at +infinity (e times the zero coefficient a5)
\* and at NaN.  At an overflowing energy the lower sets, which have a2 and
\* a3 and a b coefficient other than 0, give S = inf / inf = NaN, and the
\* upper sets, whose a2..a5 are 0, give S = a1 / inf = 0.
\* dcrosssection_de evaluates its formula, discards the value and returns
\* np.zeros_like(e).
BoschCrossSectionCalc(rx, range, method, e) ==
    IF method = "dcrosssection_de" THEN Num(0)
    ELSE IF e.k = "num" /\ e.v >= Overflowing
    THEN IF range = "lower" THEN NaN ELSE Num(0)
    ELSE IF e.k = "num" /\ e.v > 0
    THEN [k |-> "val", v |-> <<e.v>>,
          f |-> <<"BoschCrossSectionCalc", rx, range, method>>]
    ELSE NaN

\* bool * float and float + float on one element
times(b, x) ==
    IF b THEN x ELSE IF IsFinite(x) THEN Num(0) ELSE NaN

plus(x, y) ==
    CASE IsNaN(x) \/ IsNaN(y) -> NaN
      [] x = Num(0) -> y
      [] y = Num(0) -> x
      [] OTHER -> [k |-> "val", v |-> <<x, y>>, f |-> <<"add">>]

\* A mask that puts the transition energy itself in the upper range
is_lower_strict(e, transition_energy) == Lt(e, transition_energy)

\* is_lower = e <= self.transition_energy, at one element
is_lower(e, transition_energy) == Le(e, transition_energy)

\* BoschHybridCrossSectionCalc.cross_section and .dcrosssection_de:
\* is_lower * lower + np.bitwise_not(is_lower) * upper
BoschHybridCrossSectionCalc(rx, method, e) ==
    Arr(e.shape,
        [i \in DOMAIN e.data |->
            LET lower_result == BoschCrossSectionCalc(rx, "lower", method, e.data[i])
                upper_result == BoschCrossSectionCalc(rx, "upper", method, e.data[i])
                lower_mask == is_lower(e.data[i], transition(rx))
            IN  plus(times(lower_mask, lower_result),
                     times(~lower_mask, upper_result))])

\* BoschCrossSection(name, energy_range) and one call of cross_section or
\* derivative on it
BoschCrossSection(rx, energy_range, method, e) ==
    IF energy_range = "full" THEN BoschHybridCrossSectionCalc(rx, method, e)
    ELSE Arr(e.shape,
             [i \in DOMAIN e.data |->
                 BoschCrossSectionCalc(rx, energy_range, method, e.data[i])])

MaxEnergies == 2

\* Energies around the two transition energies, and invalid ones
BoschEnergies ==
    {NaN, PosInf}
    \cup {Num(n) : n \in {0, 1, 530, 531, 900, 901, Overflowing}}

BoschInputs ==
    {Arr(<<>>, <<x>>) : x \in BoschEnergies}
    \cup UNION {{Arr(<<n>>, d) : d \in Tuples(BoschEnergies, n)} :
                   n \in 0..MaxEnergies}

BoschCall ==
    \E rx \in has_multiple_ranges, energy_range \in {"full", "lower", "upper"},
       method \in {"cross_section", "dcrosssection_de"}, e \in BoschInputs :
        /\ call = Idle
        /\ call' = [op |-> "bosch", reaction |-> rx,
                    energy_range |-> energy_range, method |-> method,
                    e |-> e, error |-> "none",
                    result |-> BoschCrossSection(rx, energy_range, method, e)]
        /\ UNCHANGED <<name, cross, rate, nsets, raw, resolved>>

InitBosch == InitReaction({DT_NAME}, {{}})

NextBosch ==
    \/ BoschCall
    \/ Return

SpecBosch == InitBosch /\ [][NextBosch]_vars

(***************************************************************************)
(* The theta(T) forms of the Bosch-Hale rate coefficient, in exact         *)
(* rational arithmetic: [n, d] is n / d in lowest terms with d > 0, and    *)
(* d = 0 is the outcome of a division by zero (an infinity or a NaN)       *)
(***************************************************************************)
RECURSIVE gcd(_, _)
gcd(a, b) == IF b = 0 THEN a ELSE gcd(b, a % b)

abs(x) == IF x < 0 THEN -x ELSE x

NonFinite == [n |-> 0, d |-> 0]

Frac(n, d) ==
    IF d = 0 THEN NonFinite
    ELSE LET g == gcd(abs(n), abs(d))
             sign == IF d < 0 THEN -1 ELSE 1
         IN  [n |-> sign * (n \div g), d |-> sign * (d \div g)]

whole(n) == [n |-> n, d |-> 1]

radd(x, y) ==
    IF x.d = 0 \/ y.d = 0 THEN NonFinite
    ELSE LET g == gcd(x.d, y.d)
         IN  Frac(x.n * (y.d \div g) + y.n * (x.d \div g), (x.d \div g) * y.d)

rneg(x) == [n |-> -x.n, d |-> x.d]

rsub(x, y) == radd(x, rneg(y))

rmul(x, y) ==
    IF x.d = 0 \/ y.d = 0 THEN NonFinite
    ELSE LET g1 == gcd(abs(x.n), y.d)
             g2 == gcd(abs(y.n), x.d)
             h1 == IF g1 = 0 THEN 1 ELSE g1
             h2 == IF g2 = 0 THEN 1 ELSE g2
         IN  Frac((x.n \div h1) * (y.n \div h2), (x.d \div h2) * (y.d \div h1))

rdiv(x, y) ==
    IF x.d = 0 \/ y.d = 0 THEN NonFinite ELSE rmul(x, Frac(y.d, y.n))

\* BoschRateCoeffCalc.dtfunc: Equation (13); c is <<c2, c3, c4, c5, c6, c7>>
dtfunc(c, t) ==
    LET numer == t * (c[1] + t * (c[3] + t * c[5]))
        denom == 1 + t * (c[2] + t * (c[4] + t * c[6]))
    IN  rdiv(whole(t), rsub(whole(1), Frac(numer, denom)))

dtderiv(c, t) ==
    LET odd_denom == 1 + t * (c[2] + t * (c[4] + t * c[6]))
        a == c[3] + c[5] * t
        b == c[1] + t * a
        cc == rsub(whole(1), Frac(t * b, odd_denom))
        d1 == Frac(t * b * (c[2] + t * (c[4] + c[6] * t) + t * (c[4] + 2 * c[6] * t)),
                   odd_denom * odd_denom)
        d2 == Frac(-t * (c[3] + 2 * c[5] * t), odd_denom)
        d3 == Frac(-b, odd_denom)
    IN  radd(rmul(rneg(rdiv(whole(t), rmul(cc, cc))), radd(radd(d1, d2), d3)),
             rdiv(whole(1), cc))

hefunc(c, t) ==
    LET numer == t * (c[1] + t * c[3])
        denom == 1 + t * (c[2] + t * c[4])
    IN  rdiv(whole(t), rsub(whole(1), Frac(numer, denom)))

hederiv(c, t) ==
    LET smdenom == 1 + t * (c[2] + c[4] * t)
        a == c[1] + c[3] * t
        b == rsub(whole(1), Frac(t * a, smdenom))
        d1 == Frac(t * a * (c[2] + 2 * c[4] * t), smdenom * smdenom)
        d2 == Frac(c[3] * t, smdenom)
        d3 == Frac(a, smdenom)
    IN  radd(rmul(rneg(rdiv(whole(t), rmul(b, b))), rsub(rsub(d1, d2), d3)),
             rdiv(whole(1), b))

ddfunc(c, t) ==
    LET numer == t * c[1]
        denom == 1 + t * (c[2] + t * c[4])
    IN  rdiv(whole(t), rsub(whole(1), Frac(numer, denom)))

\* d1 = c2 * t * (c3 + 2 * c5 + t) / smdenom**2, as the source has it
ddderiv(c, t) ==
    LET smdenom == 1 + t * (c[2] + c[4] * t)
        a == rsub(whole(1), Frac(c[1] * t, smdenom))
        d1 == Frac(c[1] * t * (c[2] + 2 * c[4] + t), smdenom * smdenom)
        d2 == Frac(c[1], smdenom)
    IN  radd(rmul(rneg(rdiv(whole(t), rmul(a, a))), rsub(d1, d2)),
             rdiv(whole(1), a))

\* BoschRateCoeffCalc.__init__: self.theta and self.dtheta
theta_form(c) ==
    IF c[5] = 0 /\ c[6] = 0
    THEN IF c[3] = 0 THEN "dd" ELSE "he"
    ELSE "dt"

theta(form, c, t) ==
    CASE form = "dd" -> ddfunc(c, t)
      [] form = "he" -> hefunc(c, t)
      [] OTHER -> dtfunc(c, t)

dtheta(form, c, t) ==
    CASE form = "dd" -> ddderiv(c, t)
      [] form = "he" -> hederiv(c, t)
      [] OTHER -> dtderiv(c, t)

MaxCoefficient == 1
MaxTemperature == 2

\* Coefficient sets <<c2, c3, c4, c5, c6, c7>> and temperatures
CoefficientSets == Tuples(0..MaxCoefficient, 6)

ThetaTemperatures == 1..MaxTemperature

\* self.theta(t), as ratecoeff and dratecoeff_dt call it
ThetaCall ==
    \E t \in ThetaTemperatures :
        /\ call.op = "BoschRateCoeffCalc"
        /\ call' = [call EXCEPT !.method = "theta", !.t = t,
                                !.result = theta(call.theta, call.cd, t)]
        /\ UNCHANGED <<name, cross, rate, nsets, raw, resolved>>

\* self.dtheta(t), as dratecoeff_dt calls it
DThetaCall ==
    \E t \in ThetaTemperatures :
        /\ call.op = "BoschRateCoeffCalc"
        /\ call' = [call EXCEPT !.method = "dtheta", !.t = t,
                                !.result = dtheta(call.theta, call.cd, t)]
        /\ UNCHANGED <<name, cross, rate, nsets, raw, resolved>>

InitTheta ==
    /\ name = DT_NAME
    /\ cross = ReactionCrossSections(DT_NAME)
    /\ rate = ReactionRateCoefficients(DT_NAME, {})
    /\ nsets = 0
    /\ raw = <<>>
    /\ resolved = Idle
    /\ \E cd \in CoefficientSets :
          call = [op |-> "BoschRateCoeffCalc", cd |-> cd, theta |-> theta_form(cd),
                  method |-> "__init__", t |-> 0, result |-> NonFinite]

NextTheta ==
    \/ ThetaCall
    \/ DThetaCall

SpecTheta == InitTheta /\ [][NextTheta]_vars

(***************************************************************************)
(* Name resolution of reaction descriptions: particles, each in one of its *)
(* spellings of ION_SYNONYMS, joined with "+" and the product separator    *)
(***************************************************************************)
\* Every particle in every spelling the synonym table lists for it
Spellings ==
    UNION {{[particle |-> p, spelling |-> ION_SYNONYMS[p][i]] :
               i \in DOMAIN ION_SYNONYMS[p]} : p \in Particles}

\* The particles that react in the table, in their short spellings
ReactantSpellings ==
    {sp \in Spellings : sp.spelling \in ReactantSynonyms}

\* One short spelling per particle, and "a" next to the Greek alpha
ProductSpellings ==
    {sp \in Spellings : sp.spelling \in ShortSynonyms \cup {<<"a">>}}

LightProductSpellings ==
    {sp \in Spellings : sp.spelling \in {<<"n">>, <<"p">>, <<"alpha">>, <<"a">>}}

Description(reactants, products) ==
    [op |-> "description", reactants |-> reactants, products |-> products]

Descriptions ==
    {Description(<<x, y>>, <<>>) : x, y \in Spellings}
    \cup {Description(<<x, y>>, <<z, w>>) :
             x, y \in ReactantSpellings, z, w \in ProductSpellings}
    \cup {Description(<<x, y>>, <<z, w, v>>) :
             x, y \in ReactantSpellings, z, w, v \in LightProductSpellings}

\* The description as a string
Spell(description) ==
    LET side(ps) == joinparticles([i \in 1..Len(ps) |-> ps[i].spelling])
    IN  IF description.products = <<>> THEN side(description.reactants)
        ELSE side(description.reactants) \o <<RX_SEPARATOR>>
             \o side(description.products)

InitDescriptions ==
    /\ call \in Descriptions
    /\ raw = Spell(call)
    /\ resolved = Idle
    /\ name = DT_NAME
    /\ cross = ReactionCrossSections(DT_NAME)
    /\ rate = ReactionRateCoefficients(DT_NAME, {})
    /\ nsets = 0

NextDescriptions == ResolveName

SpecDescriptions == InitDescriptions /\ [][NextDescriptions]_vars

(***************************************************************************)
(* Claims about Reaction.cross_section and the bounds policies             *)
(***************************************************************************)
Invalid(v) == IsNaN(v) \/ v.k = "inf" \/ (v.k = "num" /\ v.v < 0)

CrossSectionDone == call.op = "cross_section" /\ call.error = "none"

PromotedShape(shape) == IF shape = <<>> THEN <<1>> ELSE shape

AllValid(x) == \A i \in 1..Len(x.data) : ~Invalid(x.data[i])

OnlyValidReachFunctions ==
    /\ AllValid(call.arg)
    /\ \A j \in 1..Len(call.log) : AllValid(call.log[j].arg)

\* The call went through the function the constructor installed
InstalledByConstructor ==
    call.func = ReactionCrossSections(name)[call.scheme]
                    [IF call.derivatives THEN DERIV ELSE FUNC]

ThroughPolicy(policy) ==
    /\ CrossSectionDone
    /\ call.func.wrap = policy
    /\ call.func.inner.wrap = "provider"

ValidAt(i) == ~Invalid(call.e.data[i])

\* C7 as stated: under 'zeros' an element outside [low, high] gives 0 and an
\* element with low <= x <= high, the boundary values included, gives f(x);
\* f is called only on the in-bounds elements.
C7_ZerosKeepsBoundaries ==
    ThroughPolicy("zeros") =>
        LET low == call.func.low
            high == call.func.high
            f == call.func.inner.f
            inside(v) == Ge(v, low) /\ Le(v, high)
        IN  /\ \A i \in 1..Len(call.e.data) :
                  ValidAt(i) =>
                      call.result.data[i] =
                          IF inside(call.e.data[i])
                          THEN Kernel(f, call.e.data[i])
                          ELSE Num(0)
            /\ \A j \in 1..Len(call.log) :
                  \A i \in 1..Len(call.log[j].arg.data) :
                      inside(call.log[j].arg.data[i])

\* C8: under 'zero_below' an element x <= low gives 0 and is not passed to f;
\* an element x > low, also one above high, gives f(x) with x unchanged.
C8_ZeroBelowOnly ==
    ThroughPolicy("zero_below") =>
        LET low == call.func.low
            f == call.func.inner.f
        IN  /\ \A i \in 1..Len(call.e.data) :
                  ValidAt(i) =>
                      call.result.data[i] =
                          IF Le(call.e.data[i], low)
                          THEN Num(0)
                          ELSE Kernel(f, call.e.data[i])
            /\ Len(call.log) = 1
            /\ call.log[1].f = f
            /\ call.log[1].arg.data =
                  Select(call.e.data,
                         [i \in 1..Len(call.e.data) |->
                            ValidAt(i) /\ ~Le(call.e.data[i], low)])

\* An element above high passed unclamped, next to one at or below low
C8_Witness ==
    /\ ThroughPolicy("zero_below")
    /\ \E i \in 1..Len(call.e.data) :
          /\ Gt(call.e.data[i], call.func.high)
          /\ call.result.data[i] = Kernel(call.func.inner.f, call.e.data[i])
    /\ \E i \in 1..Len(call.e.data) :
          /\ ValidAt(i)
          /\ Le(call.e.data[i], call.func.low)
          /\ call.result.data[i] = Num(0)

Clamped(v, low, high) ==
    IF Lt(v, low) THEN low ELSE IF Gt(v, high) THEN high ELSE v

\* C9: under 'const' every element x gives f(min(max(x, low), high)), and the
\* output has the shape of the input.
C9_ClampToBoundary ==
    ThroughPolicy("const") =>
        LET low == call.func.low
            high == call.func.high
            f == call.func.inner.f
        IN  /\ call.result.shape = PromotedShape(call.e.shape)
            /\ \A i \in 1..Len(call.e.data) :
                  ValidAt(i) =>
                      call.result.data[i] =
                          Kernel(f, Clamped(call.e.data[i], low, high))
            /\ Len(call.log) = 1
            /\ call.log[1].arg.data =
                  [i \in 1..Len(call.arg.data) |->
                     Clamped(call.arg.data[i], low, high)]

\* One call with an element below low, one inside and one above high
C9_Witness ==
    /\ ThroughPolicy("const")
    /\ \E i, j, m \in 1..Len(call.e.data) :
          /\ ValidAt(i) /\ Lt(call.e.data[i], call.func.low)
          /\ call.result.data[i] = Kernel(call.func.inner.f, call.func.low)
          /\ Gt(call.e.data[j], call.func.low)
          /\ Lt(call.e.data[j], call.func.high)
          /\ call.result.data[j] = Kernel(call.func.inner.f, call.e.data[j])
          /\ ValidAt(m) /\ Gt(call.e.data[m], call.func.high)
          /\ call.result.data[m] = Kernel(call.func.inner.f, call.func.high)

\* The ENDF value function of a Reaction nobody has reconfigured
ConstructedENDF ==
    /\ CrossSectionDone
    /\ call.scheme = ENDF
    /\ ~call.derivatives
    /\ nsets = 0

Constructed == call.op # "__init__"

\* Every scheme entry of the registry is still there after the step, around
\* the same provider object
SchemesKept ==
    /\ \A scheme \in DOMAIN cross :
          /\ scheme \in DOMAIN cross'
          /\ cross'[scheme][OBJ] = cross[scheme][OBJ]
    /\ \A dist \in DOMAIN rate :
          /\ dist \in DOMAIN rate'
          /\ \A scheme \in DOMAIN rate[dist] :
                /\ scheme \in DOMAIN rate'[dist]
                /\ rate'[dist][scheme][OBJ] = rate[dist][scheme][OBJ]

\* C11: once the constructor has returned, and after any public calls, the
\* registry has the ENDF cross section and a Maxwellian distribution with at
\* least one rate-coefficient scheme; no load step of the constructor and no
\* later call removes or replaces a scheme entry that was loaded before it.
C11_RegistryKeepsSchemes ==
    /\ [](Constructed =>
            /\ ENDF \in DOMAIN cross
            /\ MAXW \in DOMAIN rate
            /\ DOMAIN rate[MAXW] # {})
    /\ [][SchemesKept]_vars

\* A constructed Reaction with three Maxwellian schemes, after a
\* set_extrapolation_behavior call that went through
C11_Witness ==
    /\ call.op = "set_extrapolation_behavior"
    /\ call.error = "none"
    /\ DOMAIN rate[MAXW] = {ANALYTIC, INTEGRATION, INTERPOLATION}
    /\ DOMAIN cross = {ENDF, ANALYTIC}

\* The error Reaction._no_cross_analytic raises
no_cross_analytic == "NotImplementedError"

NoAnalyticFitRequested ==
    /\ call.op \in {"cross_section", "rate_coefficient"}
    /\ call.scheme = ANALYTIC
    /\ ~has_analytic_fit(name)
    /\ call.op = "rate_coefficient" => call.distribution = MAXW

\* C12: a call for the analytic scheme (cross section, or Maxwellian rate
\* coefficient) on a reaction without an analytic fit fails with the error
\* dedicated to that condition, and never returns a result.
C12_NoAnalyticFitDedicatedError ==
    NoAnalyticFitRequested => call.error = no_cross_analytic

\* A step of a public operation that completed without raising
SetCompleted ==
    /\ call = Idle
    /\ call'.op = "set_extrapolation_behavior"
    /\ call'.error = "none"

AnalyticNotMaxwellian ==
    call.scheme = ANALYTIC /\ call.distribution # MAXW

DerivativesByIntegration ==
    call.derivatives /\ call.scheme = INTEGRATION

UnsupportedOptions ==
    /\ call.op = "rate_coefficient"
    /\ AnalyticNotMaxwellian \/ DerivativesByIntegration

\* C6: rate_coefficient called with an unsupported combination of options
\* (analytic with a non-Maxwellian distribution, derivatives by integration)
\* raises ValueError after the option check alone, before the registry
\* lookup, the normalisation of the arguments and any provider call, and the
\* message lists every violated constraint and no other.
C6_OptionsRejectedFirst ==
    UnsupportedOptions =>
        /\ call.error = "ValueError"
        /\ call.steps = <<"validate_ratecoeff_opts">>
        /\ call.log = <<>>
        /\ call.result = None
        /\ AnalyticNotMaxwellian <=> ANALYTIC_ONLY_MAXW \in Range(call.issues)
        /\ DerivativesByIntegration <=> NO_DIRECT_DERIVATIVES \in Range(call.issues)
        /\ Len(call.issues) = Cardinality(Range(call.issues))

\* A rejected call whose registry lookup would have failed as well
C6_Witness ==
    /\ UnsupportedOptions
    /\ call.error = "ValueError"
    /\ call.issues # <<>>
    /\ \/ call.scheme \notin DOMAIN rate[call.distribution]
       \/ DERIV \notin DOMAIN rate[call.distribution][call.scheme]

\* A pointwise call that got as far as the safe operator
PointwiseCall ==
    /\ call.op = "rate_coefficient"
    /\ call.grid # "true"
    /\ call.steps[Len(call.steps)] = "safe_operator"

\* One argument per parameter of the distribution, of shapes that broadcast
ArgumentsBroadcast ==
    /\ Len(call.args) = (IF call.distribution = MAXW THEN 1 ELSE 2)
    /\ Broadcastable([i \in 1..Len(call.args) |->
                         normalize_energy(call.args[i]).shape])

\* C13: a pointwise rate_coefficient call whose arguments broadcast together
\* raises nothing and returns an array of the broadcast shape that is NaN
\* exactly at the positions where some argument is NaN, infinite or negative;
\* the provider was called once, and with valid values only.
C13_PointwiseNaNExactlyWhenInvalid ==
    (PointwiseCall /\ ArgumentsBroadcast) =>
        LET args == [i \in 1..Len(call.args) |-> normalize_energy(call.args[i])]
            shape == BroadcastShape([i \in 1..Len(args) |-> args[i].shape])
            b == [i \in 1..Len(args) |->
                    BroadcastTo(normalize_dimensions_and_copy(call.args[i]), shape)]
            bad == [k \in 1..Product(shape) |->
                      \E i \in 1..Len(args) : Invalid(b[i].data[k])]
        IN  /\ call.error = "none"
            /\ call.result.shape = shape
            /\ \A k \in 1..Product(shape) : IsNaN(call.result.data[k]) <=> bad[k]
            /\ Len(call.log) = 1
            /\ \A i \in 1..Len(call.log[1].arg) : AllValid(call.log[1].arg[i])

(***************************************************************************)
(* Claims about name_resolver                                              *)
(***************************************************************************)
NameResolved == resolved # Idle /\ resolved.op = "name_resolver"

\* C2: resolving a canonical name (an entry of ALL_REACTIONS or the
\* proton-boron canonical name) returns exactly that name.
C2_CanonicalRoundTrip ==
    (NameResolved /\ raw \in CanonicalNames) =>
        /\ resolved.error = "none"
        /\ resolved.found
        /\ resolved.value = raw

\* The proton-boron name, which is not in ALL_REACTIONS, resolved to itself
C2_Witness ==
    /\ NameResolved
    /\ raw = PB11_NAME
    /\ raw \notin Range(ALL_REACTIONS)
    /\ resolved.found
    /\ resolved.value = PB11_NAME

AliasesOf(s) ==
    {i \in DOMAIN ACCEPTABLE_REACTION_NAMES : ACCEPTABLE_REACTION_NAMES[i].raw = s}

Branches(reactants) ==
    {i \in DOMAIN REACTIONS : REACTIONS[i].reactants = reactants}

ReactantOnly(s) ==
    count_reaction_separators(s) = 0 /\ parse_reactants(s).error = "none"

WithProducts(s) ==
    /\ count_reaction_separators(s) = 1
    /\ LET parts == SplitOn(normalize_reaction_separators(s), {RX_SEPARATOR})
       IN  /\ parse_reactants(parts[1]).error = "none"
           /\ parse_products(parts[2]).error = "none"
           /\ REACTIONS_get(parse_reactants(parts[1]).bag,
                            parse_products(parts[2]).bag).found

\* C4 as stated: a string of two reactants without products resolves exactly
\* when the table holds one product branch for the pair, and then to that
\* branch; a pair with two or more branches is rejected with the resolution
\* error (ValueError); reactants written with the products of a branch of the
\* table resolve to that branch.
C4_UniqueBranchOrResolutionError ==
    /\ (NameResolved /\ ReactantOnly(raw)) =>
          LET b == Branches(parse_reactants(raw).bag)
          IN  /\ resolved.found <=> Cardinality(b) = 1
              /\ resolved.found =>
                    \A i \in b : resolved.value = REACTIONS[i].name
              /\ Cardinality(b) >= 2 => resolved.error = "ValueError"
    /\ (NameResolved /\ WithProducts(raw)) =>
          LET parts == SplitOn(normalize_reaction_separators(raw), {RX_SEPARATOR})
          IN  /\ resolved.found
              /\ resolved.value =
                    REACTIONS_get(parse_reactants(parts[1]).bag,
                                  parse_products(parts[2]).bag).value

\* C5 as stated: name_resolver returns a canonical name or raises the
\* resolution error (ValueError), and nothing else.
C5_CanonicalOrValueError ==
    NameResolved =>
        \/ /\ resolved.error = "none"
           /\ resolved.found
           /\ resolved.value \in CanonicalNames
        \/ resolved.error = "ValueError"

(***************************************************************************)
(* Claims about the resolution of reaction descriptions                    *)
(***************************************************************************)
Described == NameResolved /\ call.op = "description"

ParticlesOf(ps) == [i \in 1..Len(ps) |-> ps[i].particle]

\* The entries of the reaction table for the described pair of multisets
TableEntries(description) ==
    {i \in DOMAIN REACTIONS :
        /\ REACTIONS[i].reactants = bag(ParticlesOf(description.reactants))
        /\ REACTIONS[i].products = bag(ParticlesOf(description.products))}

\* C15: a description with one product separator resolves to the canonical
\* name of the table entry for its pair (multiset of reactants, multiset of
\* products), whatever the order the particles are written in, and does not
\* resolve at all when the table has no entry for the pair.
C15_TableLookupByMultisets ==
    (Described /\ call.products # <<>>) =>
        /\ count_reaction_separators(raw) = 1
        /\ \A i \in TableEntries(call) : resolved = [op |-> "name_resolver"] @@ Returned(REACTIONS[i].name)
        /\ TableEntries(call) = {} => ~resolved.found

\* The D-T reaction written with the reactants and the products in the
\* order opposite to that of the table
C15_Witness ==
    /\ Described
    /\ ParticlesOf(call.reactants) = <<"H3", "H2">>
    /\ ParticlesOf(call.products) = <<"He4", "n">>
    /\ resolved.found
    /\ resolved.value = DT_NAME

\* The same string with every Greek alpha written as the letter a
with_a(s) == [i \in DOMAIN s |-> IF s[i] = "alpha" THEN "a" ELSE s[i]]

\* The same string with every letter a written as the Greek alpha
with_alpha(s) == [i \in DOMAIN s |-> IF s[i] = "a" THEN "alpha" ELSE s[i]]

\* C16: the Greek alpha and the letter a are interchangeable wherever a
\* particle is written, a shorthand coefficient before it included: a name
\* that resolves keeps its resolution when every alpha in it is written as
\* a, and when every a in it is written as alpha.
C16_AlphaAndAInterchangeable ==
    (NameResolved /\ resolved.found) =>
        /\ name_resolver(with_a(raw)) = name_resolver(raw)
        /\ name_resolver(with_alpha(raw)) = name_resolver(raw)

\* str.lower and str.upper on the letters of the particle spellings
lower(s) ==
    LET to == [H |-> "h", D |-> "d", T |-> "t", L |-> "l", B |-> "b"]
    IN  [i \in DOMAIN s |-> IF s[i] \in DOMAIN to THEN to[s[i]] ELSE s[i]]

upper(s) ==
    LET to == [h |-> "H", d |-> "D", t |-> "T", n |-> "N", p |-> "P",
               a |-> "A", e |-> "E", i |-> "I"]
    IN  [i \in DOMAIN s |-> IF s[i] \in DOMAIN to THEN to[s[i]] ELSE s[i]]

\* The mass number of a spelling in ASCII digits, and its element symbol
MassDigits(s) ==
    LET ascii == [sup1 |-> "1", sup2 |-> "2", sup3 |-> "3", sup4 |-> "4",
                  sup6 |-> "6", sup7 |-> "7"]
        digit(c) == IF c \in DOMAIN ascii THEN ascii[c] ELSE c
        isdigit(c) == digit(c) \in {"1", "2", "3", "4", "6", "7"}
    IN  [i \in DOMAIN SelectSeq(s, isdigit) |-> digit(SelectSeq(s, isdigit)[i])]

ElementSymbol(s) ==
    LET isletter(c) == c \in {"H", "e", "L", "i", "B", "n"}
    IN  SelectSeq(s, isletter)

\* C17 as the specification states it: a listed spelling of a particle
\* still denotes that particle after its letters change case and after its
\* mass number is written in ASCII digits before or after the symbol, and
\* the description in lower case resolves as the description does.
C17_CaseAndAnnotationInsensitive ==
    Described =>
        /\ \A i \in DOMAIN call.reactants :
              LET x == call.reactants[i].spelling
                  particle == call.reactants[i].particle
              IN  /\ to_particle(lower(x)) = particle
                  /\ to_particle(upper(x)) = particle
                  /\ MassDigits(x) # <<>> =>
                        /\ to_particle(MassDigits(x) \o ElementSymbol(x)) = particle
                        /\ to_particle(ElementSymbol(x) \o MassDigits(x)) = particle
        /\ name_resolver(lower(raw)) = name_resolver(raw)

\* The description with every particle in the first spelling that
\* ION_SYNONYMS lists for it
Respelled(description) ==
    LET first(ps) == [i \in DOMAIN ps |->
                         [particle |-> ps[i].particle,
                          spelling |-> ION_SYNONYMS[ps[i].particle][1]]]
    IN  Description(first(description.reactants), first(description.products))

\* C17: every spelling that the synonym table lists for a particle denotes
\* that particle, and a description resolves as the same description with
\* its particles in other listed spellings does.
C17_ListedSpellingsSameParticle ==
    Described =>
        /\ \A i \in DOMAIN call.reactants :
              to_particle(call.reactants[i].spelling) = call.reactants[i].particle
        /\ \A i \in DOMAIN call.products :
              to_particle(call.products[i].spelling) = call.products[i].particle
        /\ resolved = [op |-> "name_resolver"] @@ name_resolver(Spell(Respelled(call)))

\* Deuterium and helium-3 in two annotation styles, neither the first of
\* the table
C17_Witness ==
    /\ Described
    /\ call.reactants[1].spelling = <<"sup2", "H">>
    /\ call.reactants[2].spelling = <<"h">>
    /\ call.products = <<>>
    /\ resolved.found
    /\ resolved.value = DHE3_NAME

\* C18: the hyphenated "D-T" and the sum "D+T" resolve to the canonical
\* name of the D-T reaction, as that name itself and "DT" do, through
\* name_resolver and through bosch_name_resolver alike.
C18_HyphenIsPlus ==
    (NameResolved /\ raw \in {<<"D", "-", "T">>, <<"D", "+", "T">>,
                              <<"D", "T">>, DT_NAME}) =>
        /\ resolved.found
        /\ resolved.value = DT_NAME
        /\ bosch_name_resolver(raw) = Returned(DT_NAME)

(***************************************************************************)
(* Claims about the table interpolators                                    *)
(***************************************************************************)
InterpolatorCalled == call.op = "interpolator"

\* C19: the one-dimensional interpolator raises on no numeric input, and
\* the rate coefficient and the derivative it returns are NaN at exactly
\* the positions where the temperature is NaN; zero, negative and infinite
\* temperatures give a value that is not NaN.
C19_InterpolatorNaNExactlyAtNaN ==
    InterpolatorCalled =>
        /\ call.error = "none"
        /\ call.result.shape = call.temperatures.shape
        /\ \A i \in DOMAIN call.temperatures.data :
              IsNaN(call.result.data[i]) <=> IsNaN(call.temperatures.data[i])

(***************************************************************************)
(* Claims about the Bosch-Hale fits                                        *)
(***************************************************************************)
FullRangeCalled == call.op = "bosch" /\ call.energy_range = "full"

\* The result of the full-range evaluator at element i is that of the
\* evaluator of one range alone
EvaluatedWith(range, i) ==
    call.result.data[i]
        = BoschCrossSectionCalc(call.reaction, range, call.method, call.e.data[i])

\* C20 as the specification states it: the full-range evaluator gives, at
\* an element strictly below the transition energy, the result of the
\* lower-range coefficients and, at an element at or above the transition
\* energy, the result of the upper-range coefficients.
C20_BelowLowerAtOrAboveUpper ==
    FullRangeCalled =>
        \A i \in DOMAIN call.e.data :
            /\ Lt(call.e.data[i], transition(call.reaction))
                  => EvaluatedWith("lower", i)
            /\ Ge(call.e.data[i], transition(call.reaction))
                  => EvaluatedWith("upper", i)

\* C20: the full-range evaluator gives, at an element at or below the
\* transition energy, the result of the lower-range coefficients and, at
\* any other element, the result of the upper-range coefficients, when the
\* coefficients of the other range give a finite result there, and NaN
\* when they do not; the result has the shape of the energies.
C20_AtOrBelowLowerAboveUpper ==
    FullRangeCalled =>
        /\ call.result.shape = call.e.shape
        /\ \A i \in DOMAIN call.e.data :
              LET chosen == IF Le(call.e.data[i], transition(call.reaction))
                            THEN "lower" ELSE "upper"
                  other == IF chosen = "lower" THEN "upper" ELSE "lower"
              IN  IF IsFinite(BoschCrossSectionCalc(call.reaction, other,
                                                    call.method, call.e.data[i]))
                  THEN EvaluatedWith(chosen, i)
                  ELSE IsNaN(call.result.data[i])

\* The D-T cross section at its transition energy and just above it
C20_Witness ==
    /\ FullRangeCalled
    /\ call.reaction = DT_NAME
    /\ call.method = "cross_section"
    /\ call.e = Arr(<<2>>, <<Num(530), Num(531)>>)
    /\ call.result.data[1].f[3] = "lower"
    /\ call.result.data[2].f[3] = "upper"

\* ------------------------------------------------------------------
\* Two Reaction objects on one heap
\*
\* Python dictionaries are objects: Reaction.__init__ makes the
\* dictionaries self._cross_section and self._ratecoeff, the loaders put
\* a new node dictionary under each scheme, and _set_bounds_behavior
\* assigns into the node it is handed.  In this specification the
\* variable resolved holds the heap (the sequence of the dictionaries made
\* so far), cross[i] and rate[i] are the addresses of the two registries
\* of instance i (0 before its construction), name[i] is its canonical
\* name and nsets[i] counts its set_extrapolation_behavior calls.
\* ------------------------------------------------------------------
MaxInstanceSets == 2

Instances == {1, 2}

InstanceReactions == {DT_NAME, TT_NAME}

\* A dictionary that is the existing equal one when there is one
new_dict_interned(heap, content) ==
    IF \E at \in DOMAIN heap : heap[at] = content
    THEN [heap |-> heap, at |-> CHOOSE at \in DOMAIN heap : heap[at] = content]
    ELSE [heap |-> Append(heap, content), at |-> Len(heap) + 1]

\* dict(), or a dictionary display: a new object at a new address
new_dict(heap, content) ==
    [heap |-> Append(heap, content), at |-> Len(heap) + 1]

\* A nested dictionary of the given depth stored on the heap, one object
\* per dictionary; the nodes are at depth 0
RECURSIVE store_tree(_, _, _)
RECURSIVE store_items(_, _, _, _)
store_items(heap, d, keys, depth) ==
    IF keys = {}
    THEN [heap |-> heap, refs |-> EmptyDict]
    ELSE LET k == CHOOSE key \in keys : TRUE
             rest == store_items(heap, d, keys \ {k}, depth)
             made == store_tree(rest.heap, d[k], depth - 1)
         IN  [heap |-> made.heap, refs |-> Put(rest.refs, k, made.at)]

store_tree(heap, d, depth) ==
    IF depth = 0
    THEN new_dict(heap, d)
    ELSE LET items == store_items(heap, d, DOMAIN d, depth)
         IN  new_dict(items.heap, items.refs)

\* The nested dictionary found at an address
RECURSIVE load_tree(_, _, _)
load_tree(heap, at, depth) ==
    IF depth = 0
    THEN heap[at]
    ELSE [k \in DOMAIN heap[at] |-> load_tree(heap, heap[at][k], depth - 1)]

Heap == resolved.objects

Exists(i) == cross[i] # 0

\* self._cross_section and self._ratecoeff of instance i, as values
CrossOf(heap, i) == load_tree(heap, cross[i], 1)

RateOf(heap, i) == load_tree(heap, rate[i], 2)

\* Reaction(rx): the registries of the new object
Construct(i, rx, tables) ==
    LET cs == store_tree(Heap, ReactionCrossSections(rx), 1)
        rc == store_tree(cs.heap, ReactionRateCoefficients(rx, tables), 2)
    IN  /\ call = Idle
        /\ ~Exists(i)
        /\ name' = [name EXCEPT ![i] = rx]
        /\ cross' = [cross EXCEPT ![i] = cs.at]
        /\ rate' = [rate EXCEPT ![i] = rc.at]
        /\ resolved' = [resolved EXCEPT !.objects = rc.heap]
        /\ UNCHANGED <<nsets, call, raw>>

\* self.set_extrapolation_behavior(...) of instance i
SetExtrapolationBehaviorOf(i, which, scheme, distribution, derivatives, behavior, extrapolable) ==
    LET crossTree == Heap[cross[i]]
        rateTree == Heap[rate[i]]
        known == which \in {"cross section", "rate coefficient"}
        hasTree == which = "cross section" \/ distribution \in DOMAIN rateTree
        tree == IF which = "cross section" THEN crossTree
                ELSE Heap[rateTree[distribution]]
        at == tree[scheme]
        node == Heap[at]
        params == node[PARAMS]
        bounds == IF extrapolable THEN params.extrapolable_bounds
                  ELSE params.bounds
        subfunction == IF derivatives THEN DERIV ELSE FUNC
        error ==
            CASE ~known -> "ValueError"
              [] ~hasTree -> "KeyError"
              [] scheme \notin DOMAIN tree -> "KeyError"
              [] PARAMS \notin DOMAIN node -> "KeyError"
              [] "bounds" \notin DOMAIN params -> "AttributeError"
              [] subfunction \notin DOMAIN node -> "KeyError"
              [] behavior \notin BehaviorNames -> "KeyError"
              [] behavior # "raw" /\ bounds = NoBounds -> "TypeError"
              [] OTHER -> "none"
        node2 == set_bounds_behavior(node, subfunction, bounds, behavior)
    IN  /\ call = Idle
        /\ Exists(i)
        /\ nsets[1] + nsets[2] < MaxInstanceSets
        /\ nsets' = [nsets EXCEPT ![i] = @ + 1]
        /\ call' = [op |-> "set_extrapolation_behavior", self |-> i,
                    which |-> which, scheme |-> scheme,
                    derivatives |-> derivatives, behavior |-> behavior,
                    error |-> error]
        /\ resolved' = IF error = "none"
                       THEN [resolved EXCEPT !.objects[at] = node2]
                       ELSE resolved
        /\ UNCHANGED <<name, cross, rate, raw>>

\* self.cross_section(e, scheme) of instance i
CrossSectionOf(i, e, scheme) ==
    LET tree == CrossOf(Heap, i)
        r == operate_on_valid(tree[scheme][FUNC], normalize_energy(e))
    IN  /\ call = Idle
        /\ Exists(i)
        /\ call' = IF scheme \notin DOMAIN tree
                   THEN [op |-> "cross_section", self |-> i,
                         scheme |-> scheme, e |-> e, error |-> "KeyError"]
                   ELSE [op |-> "cross_section", self |-> i,
                         scheme |-> scheme, e |-> e, error |-> "none",
                         result |-> r.out]
        /\ UNCHANGED <<name, cross, rate, nsets, raw, resolved>>

InstanceEnergies == {Arr(<<2>>, <<Num(0), Num(2)>>)}

ConstructCall ==
    \E i \in Instances, rx \in InstanceReactions, tables \in {{}, {MAXW}} :
        Construct(i, rx, tables)

SetExtrapolationBehaviorOfCall ==
    \E i \in Instances, which \in {"cross section", "rate coefficient", "cross_section"}, scheme \in {ENDF, ANALYTIC}, derivatives \in BOOLEAN, behavior \in {"zeros", "raw"} :
        SetExtrapolationBehaviorOf(i, which, scheme, MAXW, derivatives, behavior, FALSE)

CrossSectionOfCall ==
    \E i \in Instances, e \in InstanceEnergies, scheme \in {ENDF, ANALYTIC} :
        CrossSectionOf(i, e, scheme)

InitInstances ==
    /\ name = [i \in Instances |-> <<>>]
    /\ cross = [i \in Instances |-> 0]
    /\ rate = [i \in Instances |-> 0]
    /\ nsets = [i \in Instances |-> 0]
    /\ call = Idle
    /\ raw = <<>>
    /\ resolved = [op |-> "heap", objects |-> <<>>]

NextInstances ==
    \/ ConstructCall
    \/ SetExtrapolationBehaviorOfCall
    \/ CrossSectionOfCall
    \/ Return

SpecInstances == InitInstances /\ [][NextInstances]_vars

\* ------------------------------------------------------------------
\* The file-name part of a reaction name
\* ------------------------------------------------------------------

\* A conversion that writes every helium as "a"
reaction_name_to_endf_helium(canonical_reaction_name) ==
    LET s1 == Replace(canonical_reaction_name, <<"4", "H", "e">>, <<"a">>)
        s2 == Replace(s1, <<"3", "H", "e">>, <<"a">>)
        s3 == Replace(s2, <<"T">>, <<"t">>)
    IN  Replace(s3, <<"D">>, <<"d">>)

reaction_name_to_endf(canonical_reaction_name) ==
    LET s1 == Replace(canonical_reaction_name, <<"4", "H", "e">>, <<"a">>)
        s2 == Replace(s1, <<"3", "H", "e">>, <<"h">>)
        s3 == Replace(s2, <<"T">>, <<"t">>)
    IN  Replace(s3, <<"D">>, <<"d">>)

reaction_filename_part(canonical_reaction_name) ==
    reaction_name_to_endf(reaction_name_simplify(canonical_reaction_name))

\* s = reaction_filename_part(raw)
FilenamePart ==
    /\ resolved = Idle
    /\ resolved' = [op |-> "reaction_filename_part"]
                     @@ Returned(reaction_filename_part(raw))
    /\ UNCHANGED <<name, cross, rate, nsets, call, raw>>

\* name_resolver(s) of the file-name part s just computed
ResolveFilenamePart ==
    /\ resolved.op = "reaction_filename_part"
    /\ resolved' = [op |-> "name_resolver", part |-> resolved.value]
                     @@ name_resolver(resolved.value)
    /\ UNCHANGED <<name, cross, rate, nsets, call, raw>>

NextFilenames ==
    \/ FilenamePart
    \/ ResolveFilenamePart

SpecFilenames == InitNames /\ [][NextFilenames]_vars

\* ------------------------------------------------------------------
\* The settings of a rate coefficient integrator
\*
\* In this specification the variable rate holds one integrator object:
\* its class, the attributes relerr, maxeval and h, and the limits xmin and
\* xmax.  The settings are small positive numbers.
\* ------------------------------------------------------------------
MaxSetting == 3

Settings == 1..MaxSetting

\* x_limits(h) of the integrand maker of the distribution
x_limits(dist, h) ==
    IF dist = MAXW
    THEN [xmin |-> <<0>>, xmax |-> <<h>>]
    ELSE [xmin |-> <<0, 0, -h, 0, -h>>, xmax |-> <<h, h, h, h, h>>]

\* RateCoefficientIntegrator.__init__
RateCoefficientIntegrator(dist, relerr, maxeval, h) ==
    [class |-> <<"RateCoefficientIntegrator", dist>>,
     relerr |-> relerr, maxeval |-> maxeval, h |-> h,
     xmin |-> x_limits(dist, h).xmin, xmax |-> x_limits(dist, h).xmax]

\* integrator.h = value, integrator.relerr = value, integrator.maxeval = value
AssignSetting(attribute, value) ==
    /\ call = Idle
    /\ rate' = CASE attribute = "h" -> [rate EXCEPT !.h = value]
                 [] attribute = "relerr" -> [rate EXCEPT !.relerr = value]
                 [] attribute = "maxeval" -> [rate EXCEPT !.maxeval = value]
    /\ UNCHANGED <<name, cross, nsets, call, raw, resolved>>

\* integrator.ratecoeff(T) or integrator.ratecoeff(T_perp, T_par): the
\* arguments of the call of cubature
IntegratorRatecoeff(temperatures) ==
    /\ call = Idle
    /\ call' = [op |-> "ratecoeff", args |-> temperatures,
                error |-> IF Len(temperatures) = (IF rate.class[2] = MAXW THEN 1 ELSE 2)
                          THEN "none" ELSE "TypeError",
                ndim |-> Len(rate.xmin),
                xmin |-> rate.xmin, xmax |-> rate.xmax,
                relerr |-> rate.relerr, maxEval |-> rate.maxeval]
    /\ UNCHANGED <<name, cross, rate, nsets, raw, resolved>>

AssignSettingCall ==
    \E attribute \in {"h", "relerr", "maxeval"}, value \in Settings :
        AssignSetting(attribute, value)

IntegratorRatecoeffCall ==
    \E temperatures \in {<<1>>, <<1, 2>>} : IntegratorRatecoeff(temperatures)

InitIntegrator ==
    /\ \E dist \in Distributions, relerr \in Settings, maxeval \in Settings, h \in Settings :
          rate = RateCoefficientIntegrator(dist, relerr, maxeval, h)
    /\ name = DT_NAME
    /\ cross = EmptyDict
    /\ nsets = 0
    /\ call = Idle
    /\ raw = <<>>
    /\ resolved = Idle

NextIntegrator ==
    \/ AssignSettingCall
    \/ IntegratorRatecoeffCall
    \/ Return

SpecIntegrator == InitIntegrator /\ [][NextIntegrator]_vars

\* C21: the analytic derivative is the derivative of the closed form of
\* the value: at an energy of the valid range other than the transition
\* energy, where the cross section is a finite value of the fit, the
\* derivative is a value of the differentiated fit and not the constant 0.
C21_DerivativeOfTheClosedForm ==
    (call.op = "bosch" /\ call.method = "dcrosssection_de") =>
        \A i \in DOMAIN call.e.data :
            (/\ call.e.data[i] # transition(call.reaction)
             /\ BoschCrossSection(call.reaction, call.energy_range, "cross_section",
                                  Arr(<<1>>, <<call.e.data[i]>>)).data[1].k = "val")
                => call.result.data[i] # Num(0)

(***************************************************************************)
(* Claims about the theta(T) forms                                         *)
(***************************************************************************)
ThetaCalled == call.op = "BoschRateCoeffCalc" /\ call.method # "__init__"

\* C28: the form chosen at construction uses every nonzero coefficient,
\* and where the general form is finite the chosen form and its derivative
\* equal the general (D-T) form and its derivative on the same coefficients.
C28_ReducedFormIsSpecialization ==
    ThetaCalled =>
        /\ call.theta = "dd" => call.cd[3] = 0 /\ call.cd[5] = 0 /\ call.cd[6] = 0
        /\ call.theta = "he" => call.cd[5] = 0 /\ call.cd[6] = 0
        /\ (call.method = "theta" /\ dtfunc(call.cd, call.t).d # 0)
              => call.result = dtfunc(call.cd, call.t)
        /\ (call.method = "dtheta" /\ dtderiv(call.cd, call.t).d # 0)
              => call.result = dtderiv(call.cd, call.t)

(***************************************************************************)
(* Claims about the species of a reaction name                             *)
(***************************************************************************)
\* The position of the opening parenthesis of a canonical name
ParenthesisOf(s) == CHOOSE i \in 1..Len(s) : s[i] = "("

BeamLetters ==
    [p |-> <<"H">>, d |-> <<"D">>, t |-> <<"T">>, h |-> <<"sup3", "H", "e">>]

\* C22: for a canonical name, target_species is what the name has before
\* "(", beam_species is the species of the beam letter after "(" (p is H,
\* d is D, t is T, h is helium-3), reactants is the pair (beam, target),
\* and the particles of the pair are the reactants that the reaction table
\* registers for the name.
C22_SpeciesOfCanonicalNames ==
    (resolved # Idle /\ raw \in CanonicalNames) =>
        LET paren == ParenthesisOf(raw)
            target == SubSeq(raw, 1, paren - 1)
            beam == BeamLetters[raw[paren + 1]]
        IN  /\ resolved.error = "none"
            /\ resolved.op = "target_species" => resolved.value = target
            /\ resolved.op = "beam_species" => resolved.value = beam
            /\ resolved.op = "reactants" =>
                  /\ resolved.value = <<beam, target>>
                  /\ \E i \in DOMAIN REACTIONS : REACTIONS[i].name = raw
                  /\ \A i \in DOMAIN REACTIONS :
                        REACTIONS[i].name = raw =>
                            REACTIONS[i].reactants
                                = bag(<<PARTICLE_LOOKUP(resolved.value[1]),
                                        PARTICLE_LOOKUP(resolved.value[2])>>)

\* Tritium on helium-3
C22_Witness ==
    /\ resolved # Idle
    /\ resolved.op = "reactants"
    /\ raw = HT_NAME
    /\ resolved.value = << <<"T">>, <<"sup3", "H", "e">> >>

\* ------------------------------------------------------------------
\* Claims about two Reaction objects
\* ------------------------------------------------------------------

\* A call on instance j has just been made
ActedOn(j) == call' # Idle /\ call'.self = j

\* C23: Reaction objects share no mutable state.  A call on one object
\* (set_extrapolation_behavior included) leaves the registries and the
\* installed functions of the other as they were, and an object on which
\* set_extrapolation_behavior was never called returns from cross_section
\* what a newly constructed Reaction of its name returns, whatever was
\* done to the other object.
C23_InstancesStep ==
    \A i \in Instances, j \in Instances :
        (i # j /\ Exists(i) /\ ActedOn(j)) =>
            /\ CrossOf(Heap', i) = CrossOf(Heap, i)
            /\ RateOf(Heap', i) = RateOf(Heap, i)

C23_InstancesResult ==
    (call.op = "cross_section" /\ call.error = "none"
       /\ nsets[call.self] = 0) =>
        call.result =
            operate_on_valid(ReactionCrossSections(name[call.self])[call.scheme][FUNC], normalize_energy(call.e)).out

C23_InstancesIndependent ==
    [][C23_InstancesStep /\ C23_InstancesResult]_vars

\* A cross section of the second D-T Reaction asked for after the bounds
\* behaviour of the first D-T Reaction was changed
C23_Witness ==
    /\ call.op = "cross_section"
    /\ call.error = "none"
    /\ call.self = 2
    /\ name = [i \in Instances |-> DT_NAME]
    /\ nsets = (1 :> 1) @@ (2 :> 0)
    /\ CrossOf(Heap, 1) # CrossOf(Heap, 2)

\* ------------------------------------------------------------------
\* Claims about the integrator's cross section
\* ------------------------------------------------------------------

\* The cross-section function that the integrator of a distribution holds
IntegratorSigma(dist) == rate[dist][INTEGRATION].object.sigma

\* C24 as stated: for both distributions the integrator evaluates the
\* cross-section function that cross_section(scheme='ENDF') evaluates now,
\* whatever set_extrapolation_behavior calls were made.
C24_IntegratorUsesCurrentENDF ==
    \A dist \in DOMAIN rate :
        INTEGRATION \in DOMAIN rate[dist] =>
            IntegratorSigma(dist) = cross[ENDF][FUNC]

\* C24, amended: for both distributions the integrator evaluates the ENDF
\* cross section as it was wrapped when the Reaction was constructed (zero
\* below the lower extrapolable bound, applied to the unwrapped ENDF
\* function), the ENDF scheme being loaded and wrapped before an integrator
\* is built; that is the function that cross_section(scheme='ENDF')
\* evaluates as long as set_extrapolation_behavior was not called.
C24_IntegratorUsesENDFOfConstruction ==
    /\ call.op # "__init__" =>
          \A dist \in {MAXW, BIMAXW} :
              dist \in DOMAIN rate /\ INTEGRATION \in DOMAIN rate[dist]
    /\ \A dist \in DOMAIN rate :
          INTEGRATION \in DOMAIN rate[dist] =>
              /\ ENDF \in DOMAIN cross
              /\ RawKey(FUNC) \in DOMAIN cross[ENDF]
              /\ IntegratorSigma(dist) =
                    BEHAVIORS("zero_below", cross[ENDF][RawKey(FUNC)],
                              cross[ENDF][PARAMS].extrapolable_bounds)
              /\ (nsets = 0 => IntegratorSigma(dist) = cross[ENDF][FUNC])

\* The ENDF cross section was set to return zeros outside its bounds, and
\* the integrator still holds the function of the construction
C24_Witness ==
    /\ call.op = "set_extrapolation_behavior"
    /\ call.error = "none"
    /\ call.which = "cross section"
    /\ call.scheme = ENDF
    /\ call.behavior = "zeros"
    /\ ~call.derivatives
    /\ IntegratorSigma(MAXW) # cross[ENDF][FUNC]
    /\ cross[ENDF][FUNC].wrap = "zeros"
    /\ IntegratorSigma(MAXW).wrap = "zero_below"

\* ------------------------------------------------------------------
\* Claims about the file-name part
\* ------------------------------------------------------------------

\* The file-name part of the name was computed and resolved
PartResolved == resolved.op = "name_resolver" /\ "part" \in DOMAIN resolved

DefaultArguments(c) ==
    /\ c.which = "cross_section"
    /\ c.scheme = ANALYTIC
    /\ c.distribution = MAXW
    /\ ~c.derivatives
    /\ c.behavior = "zeros"
    /\ ~c.extrapolable

\* C29: a call of set_extrapolation_behavior whose selector is neither
\* "cross section" nor "rate coefficient" raises ValueError and leaves both
\* registries as they were; a call with the default arguments completes
\* without error and sets the behaviour of a cross-section node.
C29_SelectorStep ==
    call'.op = "set_extrapolation_behavior" =>
        /\ call'.which \notin {"cross section", "rate coefficient"} =>
              /\ call'.error = "ValueError"
              /\ cross' = cross
              /\ rate' = rate
        /\ DefaultArguments(call') =>
              /\ call'.error = "none"
              /\ rate' = rate
              /\ cross' = [cross EXCEPT ![ANALYTIC] = set_bounds_behavior(cross[ANALYTIC], FUNC, cross[ANALYTIC][PARAMS].bounds, "zeros")]

C29_SelectorCheckedDefaultsAccepted == [][C29_SelectorStep]_vars

\* ------------------------------------------------------------------
\* Claims about repeated wrapping
\* ------------------------------------------------------------------

\* The node that the call c of set_extrapolation_behavior selects
SelectedNode(c, cs, rc) ==
    IF c.which = "cross section" THEN cs[c.scheme]
    ELSE rc[c.distribution][c.scheme]

\* Every node of the two registries
RegistryNodes ==
    {cross[scheme] : scheme \in DOMAIN cross}
        \cup UNION {{rate[dist][scheme] : scheme \in DOMAIN rate[dist]} : dist \in DOMAIN rate}

\* The bounds that the loaders and set_extrapolation_behavior take from the
\* parameters of a node
BoundsOf(node) ==
    IF "tuple" \in DOMAIN node[PARAMS]
    THEN {node[PARAMS].tuple[1].bounds}
    ELSE {node[PARAMS].bounds, node[PARAMS].extrapolable_bounds}

\* The installed sub-function is one behaviour applied to the raw function
AppliedToRaw(node, subfunction) ==
    \/ node[subfunction] = node[RawKey(subfunction)]
    \/ \E behavior \in BehaviorNames \ {"raw"} :
          \E bounds \in BoundsOf(node) \ {NoBounds} :
              node[subfunction] =
                  BEHAVIORS(behavior, node[RawKey(subfunction)], bounds)

\* In every node the raw entry is a provider's own function and the
\* installed function is a behaviour applied to it
C26_NodesWrappedOnce ==
    \A node \in RegistryNodes, subfunction \in {FUNC, DERIV} :
        RawKey(subfunction) \in DOMAIN node =>
            /\ node[RawKey(subfunction)].wrap = "provider"
            /\ AppliedToRaw(node, subfunction)

\* A successful call keeps the raw entry (saving the installed function
\* as raw when there was none), installs the requested behaviour applied to
\* the raw entry, and leaves the other sub-function and its raw entry alone
C26_SetStep ==
    (call'.op = "set_extrapolation_behavior" /\ call'.error = "none") =>
        LET old == SelectedNode(call', cross, rate)
            new == SelectedNode(call', cross', rate')
            subfunction == IF call'.derivatives THEN DERIV ELSE FUNC
            other == IF call'.derivatives THEN FUNC ELSE DERIV
            bounds == IF call'.extrapolable
                      THEN old[PARAMS].extrapolable_bounds
                      ELSE old[PARAMS].bounds
        IN  /\ new[RawKey(subfunction)] =
                  IF RawKey(subfunction) \in DOMAIN old
                  THEN old[RawKey(subfunction)] ELSE old[subfunction]
            /\ new[subfunction] =
                  BEHAVIORS(call'.behavior, new[RawKey(subfunction)], bounds)
            /\ DOMAIN new = DOMAIN old \cup {RawKey(subfunction)}
            /\ \A key \in DOMAIN old \ {subfunction, RawKey(subfunction)} :
                  new[key] = old[key]

\* C26: bounds wrappers never stack.  After any sequence of
\* _set_bounds_behavior and set_extrapolation_behavior calls the raw entry
\* of a node is the unwrapped function of the provider, saved by the first
\* call and not overwritten; the installed function is the behaviour of the
\* latest call applied to the raw entry; a call for the value leaves the
\* derivative as it was, and the reverse.
C26_WrappersNeverStack == [][C26_NodesWrappedOnce /\ C26_SetStep]_vars

\* The ENDF cross section, wrapped as zero_below by the constructor, was
\* set to zeros: the new wrapper is around the provider's function
C26_Witness ==
    /\ call.op = "set_extrapolation_behavior"
    /\ call.error = "none"
    /\ call.which = "cross section"
    /\ call.scheme = ENDF
    /\ call.behavior = "zeros"
    /\ ~call.derivatives
    /\ cross[ENDF][FUNC].wrap = "zeros"
    /\ cross[ENDF][FUNC].inner.wrap = "provider"
    /\ cross[ENDF][DERIV].wrap = "const"
    /\ nsets = 1

\* ------------------------------------------------------------------
\* Claims about the grid mode of rate_coefficient
\* ------------------------------------------------------------------

\* rate_coefficient(..., grid=True) with acceptable options, for a scheme
\* that is registered for the distribution, with one argument for each
\* parameter of the distribution
GridCall ==
    /\ call.op = "rate_coefficient"
    /\ call.grid = "true"
    /\ Len(call.args) = (IF call.distribution = MAXW THEN 1 ELSE 2)
    /\ call.issues = <<>>
    /\ call.error # "KeyError"

\* The function that the call selects
GridFunction ==
    rate[call.distribution][call.scheme][IF call.derivatives THEN DERIV ELSE FUNC]

\* The shape (len(arg_n), ..., len(arg_1)) for 1-D arguments
GridShape(args) ==
    [p \in 1..Len(args) |-> args[Len(args) + 1 - p].shape[1]]

\* The index along the p-th axis of the k-th entry, counted from 1
AxisIndex(shape, k, p) ==
    (((k - 1) \div Product(SubSeq(shape, p + 1, Len(shape)))) % shape[p]) + 1

\* The value of argument i that the k-th entry of the grid belongs to
GridValue(args, k, i) ==
    args[i].data[AxisIndex(GridShape(args), k, Len(args) + 1 - i)]

\* C25: in grid mode rate_coefficient raises ValueError, before any call
\* of the provider, unless every normalized argument is 1-D.  Otherwise it
\* removes the invalid entries of each argument, calls the provider once on
\* what remains and returns an array of shape (len(arg_n), ..., len(arg_1))
\* whose entry is NaN exactly where the index along some axis is that of an
\* invalid entry of the axis's argument (argument k on axis n-1-k), and is
\* the provider's value for the arguments' values at those indices
\* elsewhere.
C25_GridModeProviderValues ==
    GridCall =>
        LET args == [i \in 1..Len(call.args) |-> normalize_energy(call.args[i])]
            n == Len(args)
            kept == [i \in 1..n |->
                       Take(args[i], MaskOf(args[i], LAMBDA v : IsFinite(v)))]
        IN  IF \E i \in 1..n : Len(args[i].shape) # 1
            THEN /\ call.error = "ValueError"
                 /\ call.log = <<>>
            ELSE /\ call.error = "none"
                 /\ Len(call.log) = 1
                 /\ call.log[1].arg = kept
                 /\ call.result # None
                 /\ call.result.shape = GridShape(args)
                 /\ \A k \in 1..Product(GridShape(args)) :
                       IF \E i \in 1..n : IsNaN(GridValue(args, k, i))
                       THEN IsNaN(call.result.data[k])
                       ELSE call.result.data[k] =
                              CallFunction(GridFunction, [i \in 1..n |-> Arr(<<1>>, <<GridValue(args, k, i)>>)], "true").out.data[1]

\* ------------------------------------------------------------------
\* Claims about the settings of an integrator
\* ------------------------------------------------------------------

\* C27: the settings h, relerr and maxeval assigned after construction
\* govern every later evaluation: a call of ratecoeff integrates between
\* the limits derived from the value that h has at the time of the call,
\* with the tolerance and the evaluation cap that relerr and maxeval have
\* then.
C27_CurrentSettingsGovern ==
    (call.op = "ratecoeff" /\ call.error = "none") =>
        /\ call.xmin = x_limits(rate.class[2], rate.h).xmin
        /\ call.xmax = x_limits(rate.class[2], rate.h).xmax
        /\ call.relerr = rate.relerr
        /\ call.maxEval = rate.maxeval

====
